---------------------------- MODULE Spec2Model ----------------------------
(***************************************************************************)
(* The SVG-to-component code generator of src/src/types/messages.ts as a   *)
(* state machine.  A text is a sequence of one-character strings, so that  *)
(* quoting, escaping, line structure and the textual templating pass are   *)
(* computed character by character, the way the code computes them.        *)
(***************************************************************************)
EXTENDS Naturals, Sequences, FiniteSets

VARIABLES
  svgElement,   \* the element tree passed to convertSVGToComponent
  options,      \* the ConversionOptions passed to convertSVGToComponent
  pc,           \* "ready": inputs chosen, "done": the generator has returned
  out,          \* the values computed by the call (see Convert)
  code,         \* the text a caller of formatCode starts from
  formatted,    \* the values formatCode has returned to that caller, in order
  svgElements,  \* SVGDetector.svgElements: the SVG sources found on the page
  message,      \* the message handleMessage is handling, or handled last
  cpc,          \* where handleMessage stands: "idle", or the await it is at
  locals,       \* the locals of convertSVG and fetchAndOptimizeSVG
  responses,    \* the calls of sendResponse so far, in order
  trace,        \* what handling the current message has called so far
  requests,     \* the messages the listener has passed to handleMessage, in order
  isOverlayEnabled, \* SVGDetector.isOverlayEnabled
  overlays,     \* SVGDetector.overlays: the overlay element of each index
  bodyOverlays, \* the overlay elements among the children of document.body
  storage,      \* chrome.storage.local of the background worker: the history key
  handlers,     \* the calls of addToHistory so far, in order of arrival
  overlapped,   \* some call of addToHistory started before an earlier one ended
  enabled,      \* hover detector: SVGDetector.enabled
  copyFormat,   \* hover detector: SVGDetector.format
  pointer,      \* what the mouse pointer is over
  currentTarget, \* hover detector: SVGDetector.currentTarget
  popoverVisible, \* the popover has the class `visible`
  btnText,      \* the text of the popover's button
  highlight,    \* the highlight box: "none", "visible" or "fading"
  hideTimeout,  \* hover detector: SVGDetector.hideTimeout, "null" or "handle"
  hideTimer,    \* the 300 ms timer of scheduleHide is running
  resetTimer,   \* a 200 ms timer of hidePopover is running
  selectedSVGIndex, \* popup: PopupController.selectedSVGIndex, NoIndex for null
  currentCode,  \* popup: PopupController.currentCode
  currentFormat, \* popup: PopupController.currentFormat
  form,         \* popup: the component name typed and the format radio checked
  panel,        \* popup: which of conversionPanel and resultSection are shown,
                \* and the text of codeOutput
  convertBtn,   \* popup: the text of the Convert button and whether it is disabled
  conversions,  \* popup: the calls of PopupController.convertSVG so far
  exported,     \* popup: what was downloaded or copied last
  badge,        \* background: the badge text and colour of each tab
  counted       \* background: the count each tab sent last, NoCount for none

generatorVars == <<svgElement, options, pc, out>>
formatVars == <<code, formatted>>
contentVars ==
  <<svgElements, message, cpc, locals, responses, trace, requests, isOverlayEnabled,
    overlays, bodyOverlays>>
historyVars == <<storage, handlers, overlapped>>
hoverVars ==
  <<enabled, copyFormat, pointer, currentTarget, popoverVisible, btnText, highlight,
    hideTimeout, hideTimer, resetTimer>>
popupVars ==
  <<selectedSVGIndex, currentCode, currentFormat, form, panel, convertBtn, conversions,
    exported>>
badgeVars == <<badge, counted>>
\* the variables of the background worker, the hover detector and the popup
otherScripts == <<historyVars, hoverVars, popupVars, badgeVars>>
vars ==
  <<svgElement, options, pc, out, code, formatted,
    svgElements, message, cpc, locals, responses, trace, requests, isOverlayEnabled,
    overlays, bodyOverlays,
    storage, handlers, overlapped,
    enabled, copyFormat, pointer, currentTarget, popoverVisible, btnText, highlight,
    hideTimeout, hideTimer, resetTimer,
    selectedSVGIndex, currentCode, currentFormat, form, panel, convertBtn, conversions,
    exported, badge, counted>>

---------------------------------------------------------------------------
(* Texts *)

\* JavaScript's null / undefined where a text is expected: no text equals it,
\* because every character of a text is a one-character string.
Null == <<"null">>

Truthy(s) == s # Null /\ s # <<>>

WhiteSpace == {" ", "\n", "\t", "\r"}

RECURSIVE Join(_, _)
\* Array.prototype.join
Join(parts, sep) ==
  IF parts = <<>> THEN <<>>
  ELSE IF Len(parts) = 1 THEN parts[1]
  ELSE parts[1] \o sep \o Join(Tail(parts), sep)

\* String.prototype.indexOf, 1-based, 0 when absent
IndexOf(s, sub, from) ==
  LET cands == {i \in from..(Len(s) - Len(sub) + 1) : SubSeq(s, i, i + Len(sub) - 1) = sub}
  IN  IF cands = {} THEN 0 ELSE CHOOSE i \in cands : \A j \in cands : i <= j

Contains(s, sub) == IndexOf(s, sub, 1) # 0

StartsWith(s, pre) == Len(pre) <= Len(s) /\ SubSeq(s, 1, Len(pre)) = pre

RECURSIVE Split(_, _)
\* String.prototype.split: the parts of s between occurrences of sep
Split(s, sep) ==
  LET i == IndexOf(s, sep, 1)
  IN  IF i = 0 THEN <<s>>
      ELSE <<SubSeq(s, 1, i - 1)>> \o Split(SubSeq(s, i + Len(sep), Len(s)), sep)

\* String.prototype.trim
Trim(s) ==
  LET keep == {i \in 1..Len(s) : s[i] \notin WhiteSpace}
  IN  IF keep = {} THEN <<>>
      ELSE SubSeq(s, CHOOSE i \in keep : \A j \in keep : i <= j,
                     CHOOSE i \in keep : \A j \in keep : i >= j)

\* String.prototype.trimEnd
TrimEnd(s) ==
  LET keep == {i \in 1..Len(s) : s[i] \notin WhiteSpace}
  IN  IF keep = {} THEN <<>>
      ELSE SubSeq(s, 1, CHOOSE i \in keep : \A j \in keep : i >= j)

\* UpperCase is the text `ABCDEFGHIJKLMNOPQRSTUVWXYZ`
UpperCase ==
  <<"A", "B", "C", "D", "E", "F", "G", "H", "I", "J", "K", "L", "M", "N", "O", "P",
    "Q", "R", "S", "T", "U", "V", "W", "X", "Y", "Z">>
\* LowerCase is the text `abcdefghijklmnopqrstuvwxyz`
LowerCase ==
  <<"a", "b", "c", "d", "e", "f", "g", "h", "i", "j", "k", "l", "m", "n", "o", "p",
    "q", "r", "s", "t", "u", "v", "w", "x", "y", "z">>

\* a conversion that leaves capitals as they are
ToLowerCase_Unchanged(s) == s

\* String.prototype.toLowerCase
ToLowerCase(s) ==
  [i \in 1..Len(s) |->
     IF \E k \in 1..Len(UpperCase) : UpperCase[k] = s[i]
     THEN LowerCase[CHOOSE k \in 1..Len(UpperCase) : UpperCase[k] = s[i]]
     ELSE s[i]]

\* String.prototype.repeat
Repeat(s, n) == [i \in 1..(n * Len(s)) |-> s[((i - 1) % Len(s)) + 1]]

---------------------------------------------------------------------------
(* convertAttributes *)

attributeMap ==
  << << <<"c", "l", "a", "s", "s">>,
        <<"c", "l", "a", "s", "s", "N", "a", "m", "e">> >>,
     << <<"f", "o", "r">>,
        <<"h", "t", "m", "l", "F", "o", "r">> >>,
     << <<"s", "t", "r", "o", "k", "e", "-", "w", "i", "d", "t", "h">>,
        <<"s", "t", "r", "o", "k", "e", "W", "i", "d", "t", "h">> >>,
     << <<"s", "t", "r", "o", "k", "e", "-", "l", "i", "n", "e", "c", "a", "p">>,
        <<"s", "t", "r", "o", "k", "e", "L", "i", "n", "e", "c", "a", "p">> >>,
     << <<"s", "t", "r", "o", "k", "e", "-", "l", "i", "n", "e", "j", "o", "i", "n">>,
        <<"s", "t", "r", "o", "k", "e", "L", "i", "n", "e", "j", "o", "i", "n">> >>,
     << <<"s", "t", "r", "o", "k", "e", "-", "d", "a", "s", "h", "a", "r", "r", "a", "y">>,
        <<"s", "t", "r", "o", "k", "e", "D", "a", "s", "h", "a", "r", "r", "a", "y">> >>,
     << <<"s", "t", "r", "o", "k", "e", "-", "d", "a", "s", "h", "o", "f", "f", "s", "e",
           "t">>,
        <<"s", "t", "r", "o", "k", "e", "D", "a", "s", "h", "o", "f", "f", "s", "e",
              "t">> >>,
     << <<"f", "i", "l", "l", "-", "o", "p", "a", "c", "i", "t", "y">>,
        <<"f", "i", "l", "l", "O", "p", "a", "c", "i", "t", "y">> >>,
     << <<"s", "t", "r", "o", "k", "e", "-", "o", "p", "a", "c", "i", "t", "y">>,
        <<"s", "t", "r", "o", "k", "e", "O", "p", "a", "c", "i", "t", "y">> >>,
     << <<"f", "i", "l", "l", "-", "r", "u", "l", "e">>,
        <<"f", "i", "l", "l", "R", "u", "l", "e">> >>,
     << <<"c", "l", "i", "p", "-", "r", "u", "l", "e">>,
        <<"c", "l", "i", "p", "R", "u", "l", "e">> >>,
     << <<"s", "t", "r", "o", "k", "e", "-", "m", "i", "t", "e", "r", "l", "i", "m", "i",
           "t">>,
        <<"s", "t", "r", "o", "k", "e", "M", "i", "t", "e", "r", "l", "i", "m", "i",
              "t">> >>,
     << <<"f", "o", "n", "t", "-", "f", "a", "m", "i", "l", "y">>,
        <<"f", "o", "n", "t", "F", "a", "m", "i", "l", "y">> >>,
     << <<"f", "o", "n", "t", "-", "s", "i", "z", "e">>,
        <<"f", "o", "n", "t", "S", "i", "z", "e">> >>,
     << <<"f", "o", "n", "t", "-", "w", "e", "i", "g", "h", "t">>,
        <<"f", "o", "n", "t", "W", "e", "i", "g", "h", "t">> >>,
     << <<"t", "e", "x", "t", "-", "a", "n", "c", "h", "o", "r">>,
        <<"t", "e", "x", "t", "A", "n", "c", "h", "o", "r">> >>,
     << <<"d", "o", "m", "i", "n", "a", "n", "t", "-", "b", "a", "s", "e", "l", "i", "n",
           "e">>,
        <<"d", "o", "m", "i", "n", "a", "n", "t", "B", "a", "s", "e", "l", "i", "n",
              "e">> >>,
     << <<"a", "l", "i", "g", "n", "m", "e", "n", "t", "-", "b", "a", "s", "e", "l", "i",
           "n", "e">>,
        <<"a", "l", "i", "g", "n", "m", "e", "n", "t", "B", "a", "s", "e", "l", "i", "n",
              "e">> >>,
     << <<"b", "a", "s", "e", "l", "i", "n", "e", "-", "s", "h", "i", "f", "t">>,
        <<"b", "a", "s", "e", "l", "i", "n", "e", "S", "h", "i", "f", "t">> >>,
     << <<"s", "t", "o", "p", "-", "c", "o", "l", "o", "r">>,
        <<"s", "t", "o", "p", "C", "o", "l", "o", "r">> >>,
     << <<"s", "t", "o", "p", "-", "o", "p", "a", "c", "i", "t", "y">>,
        <<"s", "t", "o", "p", "O", "p", "a", "c", "i", "t", "y">> >>,
     << <<"x", "m", "l", "n", "s", ":", "x", "l", "i", "n", "k">>,
        <<"x", "m", "l", "n", "s", "X", "l", "i", "n", "k">> >>,
     << <<"x", "l", "i", "n", "k", ":", "h", "r", "e", "f">>,
        <<"x", "l", "i", "n", "k", "H", "r", "e", "f">> >> >>

\* xmlns is the text `xmlns`
xmlns == <<"x", "m", "l", "n", "s">>
\* xmlns_svg is the text `xmlns:svg`
xmlns_svg == <<"x", "m", "l", "n", "s", ":", "s", "v", "g">>

\* Names that attributeMap, a plain object, inherits from Object.prototype:
\* the lookup attributeMap[name] finds a function there, not undefined.
InheritedNames ==
  \* `constructor`  `toString`  `valueOf`  `hasOwnProperty`
  {<<"c","o","n","s","t","r","u","c","t","o","r">>, <<"t","o","S","t","r","i","n","g">>,
        <<"v","a","l","u","e","O","f">>, <<"h","a","s","O","w","n","P","r","o","p","e","r",
        "t","y">>,
   \* `isPrototypeOf`  `propertyIsEnumerable`  `toLocaleString`
   <<"i","s","P","r","o","t","o","t","y","p","e","O","f">>, <<"p","r","o","p","e","r","t",
         "y","I","s","E","n","u","m","e","r","a","b","l","e">>, <<"t","o","L","o","c","a",
         "l","e","S","t","r","i","n","g">>}

\* the text a template literal gives for the inherited function of that name
InheritedText(name) ==
  \* `function `  `constructor`  `Object`
  <<"f","u","n","c","t","i","o","n"," ">> \o (IF name = <<"c","o","n","s","t","r","u","c",
        "t","o","r">> THEN <<"O","b","j","e","c","t">> ELSE name)
    \* `() { [native code] }`
    \o <<"(",")"," ","{"," ","[","n","a","t","i","v","e"," ","c","o","d","e","]"," ","}">>

\* attributeMap[name] || name, as the text that name then contributes
TranslateName(name) ==
  IF \E k \in 1..Len(attributeMap) : attributeMap[k][1] = name
  THEN attributeMap[CHOOSE k \in 1..Len(attributeMap) : attributeMap[k][1] = name][2]
  ELSE IF name \in InheritedNames THEN InheritedText(name)
  ELSE name

RECURSIVE EscapeQuotes(_)
\* value.replace(/"/g, '\\"')
EscapeQuotes(value) ==
  IF value = <<>> THEN <<>>
  ELSE (IF Head(value) = "\"" THEN <<"\\", "\"">> ELSE <<Head(value)>>)
       \o EscapeQuotes(Tail(value))

\* a loop that skips xmlns only
IsSkipped_XmlnsOnly(attr) == attr.name = xmlns

\* the namespace declarations the loop skips
IsSkipped(attr) == attr.name = xmlns \/ attr.name = xmlns_svg

\* a test that takes the empty value only for a boolean attribute
IsBooleanAttr_EmptyOnly(attr) == attr.value = <<>>

\* value === '' || value === name, with name already translated (an inherited
\* function is never identical to a text)
IsBooleanAttr(attr) ==
  \/ attr.value = <<>>
  \/ attr.name \notin InheritedNames /\ attr.value = TranslateName(attr.name)

\* one attribute's entry of the attributes array
RenderAttr(attr) ==
  LET name == TranslateName(attr.name)
  IN  IF IsBooleanAttr(attr) THEN name
      ELSE name \o <<"=","\"">> \o EscapeQuotes(attr.value) \o <<"\"">>

RECURSIVE RenderedAttrs_Reversed(_)
\* a loop that puts each entry in front of the earlier ones
RenderedAttrs_Reversed(attrs) ==
  IF attrs = <<>> THEN <<>>
  ELSE RenderedAttrs_Reversed(Tail(attrs))
       \o (IF IsSkipped(Head(attrs)) THEN <<>> ELSE <<RenderAttr(Head(attrs))>>)

RECURSIVE RenderedAttrs(_)
\* the attributes array after the loop
RenderedAttrs(attrs) ==
  IF attrs = <<>> THEN <<>>
  ELSE (IF IsSkipped(Head(attrs)) THEN <<>> ELSE <<RenderAttr(Head(attrs))>>)
       \o RenderedAttrs(Tail(attrs))

convertAttributes(element) == Join(RenderedAttrs(element.attributes), <<" ">>)

---------------------------------------------------------------------------
(* elementToJSX *)

IndentStr(indent) == Repeat(<<" ", " ">>, indent)

\* ' ' + attributes when attributes is non-empty
AttrStr(element) ==
  LET attributes == convertAttributes(element)
  IN  IF attributes # <<>> THEN <<" ">> \o attributes ELSE <<>>

\* element.textContent?.trim()
TrimmedText(element) ==
  IF element.textContent = Null THEN Null ELSE Trim(element.textContent)

\* element.children.length === 0 && !element.textContent?.trim()
IsSelfClosing(element) ==
  Len(element.children) = 0 /\ ~Truthy(TrimmedText(element))

\* a serializer that writes an empty element as an open and a close tag
SelfClosingTag_OpenClose(element, indent) ==
  IndentStr(indent) \o <<"<">> \o ToLowerCase(element.tagName) \o AttrStr(element)
    \o <<">","<","/">> \o ToLowerCase(element.tagName) \o <<">">>

\* `${indentStr}<${tagName}${attrStr} />`
SelfClosingTag(element, indent) ==
  IndentStr(indent) \o <<"<">> \o ToLowerCase(element.tagName) \o AttrStr(element)
    \o <<" ","/",">">>

OpenTag(element, indent) ==
  IndentStr(indent) \o <<"<">> \o ToLowerCase(element.tagName) \o AttrStr(element)
    \o <<">">>

\* a close tag that is not indented
CloseTag_NoIndent(element, indent) ==
  <<"<","/">> \o ToLowerCase(element.tagName) \o <<">">>

CloseTag(element, indent) ==
  IndentStr(indent) \o <<"<","/">> \o ToLowerCase(element.tagName) \o <<">">>

\* a branch that writes the text content as it is
TextOnlyTag_Untrimmed(element, indent) ==
  IndentStr(indent) \o <<"<">> \o ToLowerCase(element.tagName)
    \o AttrStr(element) \o <<">">> \o element.textContent
    \o <<"<","/">> \o ToLowerCase(element.tagName) \o <<">">>

\* the branch for an element without child elements but with text
TextOnlyTag(element, indent) ==
  LET text == IF Truthy(TrimmedText(element)) THEN TrimmedText(element) ELSE <<>>
  IN  IF text # <<>>
      THEN IndentStr(indent) \o <<"<">> \o ToLowerCase(element.tagName)
             \o AttrStr(element) \o <<">">> \o text
             \o <<"<","/">> \o ToLowerCase(element.tagName) \o <<">">>
      ELSE SelfClosingTag(element, indent)

RECURSIVE elementToJSX(_, _)
elementToJSX(element, indent) ==
  IF IsSelfClosing(element) THEN SelfClosingTag(element, indent)
  ELSE IF Len(element.children) = 0 THEN TextOnlyTag(element, indent)
  ELSE Join(<<OpenTag(element, indent)>>
            \o [i \in 1..Len(element.children) |->
                  elementToJSX(element.children[i], indent + 1)]
            \o <<CloseTag(element, indent)>>, <<"\n">>)

---------------------------------------------------------------------------
(* generatePropTypes *)

\* options.addProps?.<flag>: the flag's value when addProps is present and
\* has an entry for it, undefined (falsy) otherwise.  addProps is the list
\* of the object's own entries, in the order they were given.
Flag(opts, flag) ==
  /\ opts.hasAddProps
  /\ \E i \in 1..Len(opts.addProps) :
       opts.addProps[i][1] = flag /\ opts.addProps[i][2]

PropWidth ==
  \* `number | string`
  [name |-> <<"w","i","d","t","h">>, type |-> <<"n","u","m","b","e","r"," ","|"," ","s","t",
        "r","i","n","g">>, defaultValue |-> <<"2","4">>]
PropHeight ==
  \* `height`  `number | string`
  [name |-> <<"h","e","i","g","h","t">>, type |-> <<"n","u","m","b","e","r"," ","|"," ","s",
        "t","r","i","n","g">>, defaultValue |-> <<"2","4">>]
PropClassName ==
  \* `className`  `string`
  [name |-> <<"c","l","a","s","s","N","a","m","e">>, type |-> <<"s","t","r","i","n","g">>,
        defaultValue |-> Null]
PropColor ==
  \* `string`  `"currentColor"`
  [name |-> <<"c","o","l","o","r">>, type |-> <<"s","t","r","i","n","g">>,
        defaultValue |-> <<"\"","c","u","r","r","e","n","t","C","o","l","o","r","\"">>]

\* a generator that tests the color flag first
Props_ColorFirst(opts) ==
  (IF Flag(opts, "color") THEN <<PropColor>> ELSE <<>>)
  \o (IF Flag(opts, "width") THEN <<PropWidth>> ELSE <<>>)
  \o (IF Flag(opts, "height") THEN <<PropHeight>> ELSE <<>>)
  \o (IF Flag(opts, "className") THEN <<PropClassName>> ELSE <<>>)

\* the props array after the four tests
Props(opts) ==
  (IF Flag(opts, "width") THEN <<PropWidth>> ELSE <<>>)
  \o (IF Flag(opts, "height") THEN <<PropHeight>> ELSE <<>>)
  \o (IF Flag(opts, "className") THEN <<PropClassName>> ELSE <<>>)
  \o (IF Flag(opts, "color") THEN <<PropColor>> ELSE <<>>)

\* a generator whose color flag maps fill only
PropsUsage_FillOnly(opts) ==
  \* `{width}`
  (IF Flag(opts, "width") THEN << <<<<"w","i","d","t","h">>, <<"{","w","i","d","t","h",
        "}">>>> >> ELSE <<>>)
  \* `height`  `{height}`
  \o (IF Flag(opts, "height") THEN << <<<<"h","e","i","g","h","t">>, <<"{","h","e","i","g",
        "h","t","}">>>> >> ELSE <<>>)
  \o (IF Flag(opts, "className")
      \* `className`  `{className}`
      THEN << <<<<"c","l","a","s","s","N","a","m","e">>, <<"{","c","l","a","s","s","N","a",
            "m","e","}">>>> >> ELSE <<>>)
  \* `{color}`
  \o (IF Flag(opts, "color") THEN << <<<<"f","i","l","l">>, <<"{","c","o","l","o","r",
        "}">>>> >> ELSE <<>>)

\* the entries of the propsUsage object, in insertion order
PropsUsage(opts) ==
  \* `{width}`
  (IF Flag(opts, "width") THEN << <<<<"w","i","d","t","h">>, <<"{","w","i","d","t","h",
        "}">>>> >> ELSE <<>>)
  \* `height`  `{height}`
  \o (IF Flag(opts, "height") THEN << <<<<"h","e","i","g","h","t">>, <<"{","h","e","i","g",
        "h","t","}">>>> >> ELSE <<>>)
  \o (IF Flag(opts, "className")
      \* `className`  `{className}`
      THEN << <<<<"c","l","a","s","s","N","a","m","e">>, <<"{","c","l","a","s","s","N","a",
            "m","e","}">>>> >> ELSE <<>>)
  \o (IF Flag(opts, "color")
      \* `{color}`  `stroke`  `{color}`
      THEN << <<<<"f","i","l","l">>, <<"{","c","o","l","o","r","}">>>>, <<<<"s","t","r","o",
            "k","e">>, <<"{","c","o","l","o","r","}">>>> >>
      ELSE <<>>)

IsTsx(opts) == opts.format = "tsx"

\* `${p.name}?: ${p.type};`
InterfaceLine(p) == p.name \o <<"?",":"," ">> \o p.type \o <<";">>

\* a destructuring that drops the defaults
DestructureItem_NoDefault(p) == p.name

\* p.defaultValue ? `${p.name} = ${p.defaultValue}` : p.name
DestructureItem(p) ==
  IF Truthy(p.defaultValue) THEN p.name \o <<" ","="," ">> \o p.defaultValue ELSE p.name

\* an interface block emitted whatever the format
PropsInterface_AnyFormat(opts) ==
  \* `interface `  `Props {\n  `
  <<"i","n","t","e","r","f","a","c","e"," ">> \o opts.componentName \o <<"P","r","o","p",
        "s"," ","{","\n"," "," ">>
    \o Join([i \in 1..Len(Props(opts)) |-> InterfaceLine(Props(opts)[i])], <<"\n"," "," ">>)
    \o <<"\n","}","\n","\n">>

\* the interface template, in the typed format only
PropsInterface(opts) ==
  IF IsTsx(opts)
  \* `interface `  `Props {\n  `
  THEN <<"i","n","t","e","r","f","a","c","e"," ">> \o opts.componentName \o <<"P","r","o",
        "p","s"," ","{","\n"," "," ">>
         \o Join([i \in 1..Len(Props(opts)) |-> InterfaceLine(Props(opts)[i])],
                 <<"\n"," "," ">>)
         \o <<"\n","}","\n","\n">>
  ELSE <<>>

\* the destructuring template, annotated in the typed format
PropsDestructure(opts) ==
  <<"{"," ">>
    \o Join([i \in 1..Len(Props(opts)) |-> DestructureItem(Props(opts)[i])], <<","," ">>)
    \o <<" ","}">>
    \o (IF IsTsx(opts) THEN <<":"," ">> \o opts.componentName \o <<"P","r","o","p",
          "s">> ELSE <<>>)

\* a generator without the early return for an empty props array
generatePropTypes_NoEarlyReturn(opts) ==
  [propsInterface |-> PropsInterface(opts),
   propsDestructure |-> PropsDestructure(opts),
   propsUsage |-> PropsUsage(opts)]

generatePropTypes(opts) ==
  IF Len(Props(opts)) = 0
  THEN [propsInterface |-> <<>>, propsDestructure |-> <<>>, propsUsage |-> <<>>]
  ELSE [propsInterface |-> PropsInterface(opts),
        propsDestructure |-> PropsDestructure(opts),
        propsUsage |-> PropsUsage(opts)]

---------------------------------------------------------------------------
(* applyPropsToSVG *)

\* a replacement without the global flag: the first match only
ReplaceAttr_FirstOnly(s, attr, propValue) ==
  LET pat == attr \o <<"=","\"">>
      i == IndexOf(s, pat, 1)
      j == IF i = 0 THEN 0 ELSE IndexOf(s, <<"\"">>, i + Len(pat))
  IN  IF i = 0 \/ j = 0 THEN s
      ELSE SubSeq(s, 1, i - 1) \o attr \o <<"=">> \o propValue
             \o SubSeq(s, j + 1, Len(s))

RECURSIVE ReplaceAttr(_, _, _)
\* result.replace(new RegExp(`${attr}="[^"]*"`, 'g'), `${attr}=${propValue}`):
\* the leftmost attr=" that a later double quote closes is replaced up to the
\* first such quote, and the scan goes on after it.
ReplaceAttr(s, attr, propValue) ==
  LET pat == attr \o <<"=","\"">>
      i == IndexOf(s, pat, 1)
      j == IF i = 0 THEN 0 ELSE IndexOf(s, <<"\"">>, i + Len(pat))
  IN  IF i = 0 \/ j = 0 THEN s
      ELSE SubSeq(s, 1, i - 1) \o attr \o <<"=">> \o propValue
             \o ReplaceAttr(SubSeq(s, j + 1, Len(s)), attr, propValue)

RECURSIVE applyPropsToSVG(_, _)
\* the loop over Object.entries(propsUsage)
applyPropsToSVG(svgString, propsUsage) ==
  IF propsUsage = <<>> THEN svgString
  ELSE applyPropsToSVG(ReplaceAttr(svgString, Head(propsUsage)[1], Head(propsUsage)[2]),
                       Tail(propsUsage))

---------------------------------------------------------------------------
(* Errors a call signals *)

TypeError == <<"TypeError">>

\* a member read that signals a TypeError on null and undefined, `?.` or not
MemberErrors_NoOptionalChaining(isNullish, optional) ==
  IF isNullish THEN {TypeError} ELSE {}

\* object.member signals a TypeError when the object is null or undefined;
\* object?.member does not
MemberErrors(isNullish, optional) ==
  IF isNullish /\ ~optional THEN {TypeError} ELSE {}

\* options.addProps?.width, ?.height, ?.className, ?.color
generatePropTypesErrors(opts) == MemberErrors(~opts.hasAddProps, TRUE)

RECURSIVE elementToJSXErrors(_)
\* element.textContent?.trim() is read on an element without children only;
\* the children are serialized otherwise
elementToJSXErrors(element) ==
  IF Len(element.children) = 0
  THEN MemberErrors(element.textContent = Null, TRUE)
  ELSE UNION {elementToJSXErrors(element.children[i]) : i \in 1..Len(element.children)}

---------------------------------------------------------------------------
(* What a call leaves of its arguments *)

\* a loop that assigns the translated name and the escaped value to the
\* attribute itself
AttrAfter_WriteBack(attr) ==
  IF IsSkipped(attr) THEN attr
  ELSE [name |-> TranslateName(attr.name), value |-> EscapeQuotes(attr.value)]

\* convertAttributes copies attr.name and attr.value into the locals name and
\* value and assigns to the locals only
AttrAfter(attr) == attr

RECURSIVE ElementAfter(_)
\* elementToJSX reads tagName, children and textContent, and calls
\* convertAttributes and itself on every element of the tree
ElementAfter(element) ==
  [tagName |-> element.tagName,
   attributes |-> [i \in 1..Len(element.attributes) |-> AttrAfter(element.attributes[i])],
   children |-> [i \in 1..Len(element.children) |-> ElementAfter(element.children[i])],
   textContent |-> element.textContent]

\* generatePropTypes and convertSVGToComponent destructure options and read
\* options.addProps; nothing is assigned to it
OptionsAfter(opts) ==
  [format |-> opts.format, componentName |-> opts.componentName,
   hasAddProps |-> opts.hasAddProps, addProps |-> opts.addProps]

---------------------------------------------------------------------------
(* convertSVGToComponent *)

\* jsxContent after the optional templating pass
TemplatedContent(jsx, propsUsage) ==
  IF Len(propsUsage) > 0 THEN applyPropsToSVG(jsx, propsUsage) ELSE jsx

\* the component template
Component(opts, propsInterface, functionParams, jsxContent) ==
  \* `export function `
  propsInterface \o <<"e","x","p","o","r","t"," ","f","u","n","c","t","i","o","n",
        " ">> \o opts.componentName \o <<"(">>
    \* `) {\n  return (\n`  `\n  );\n}`
    \o functionParams \o <<")"," ","{","\n"," "," ","r","e","t","u","r","n"," ","(",
          "\n">> \o jsxContent \o <<"\n"," "," ",")",";","\n","}">>

RECURSIVE Calls(_, _)
\* the calls of elementToJSX that serializing element at indent makes, the
\* first included: the element, the indent and the text returned
Calls(element, indent) ==
  {[element |-> element, indent |-> indent, result |-> elementToJSX(element, indent)]}
    \cup UNION {Calls(element.children[i], indent + 1) :
                  i \in 1..Len(element.children)}

\* The values the call computes: the three results of generatePropTypes, the
\* serialized tree before and after the templating pass, the returned text,
\* and the serializer's calls.
convertSVGToComponent(element, opts) ==
  LET gen == generatePropTypes(opts)
      serialized == elementToJSX(element, 1)
      jsxContent == TemplatedContent(serialized, gen.propsUsage)
      functionParams == IF gen.propsDestructure # <<>> THEN gen.propsDestructure ELSE <<>>
      thrown == generatePropTypesErrors(opts) \cup elementToJSXErrors(element)
  IN  [propsInterface |-> gen.propsInterface,
       propsDestructure |-> gen.propsDestructure,
       propsUsage |-> gen.propsUsage,
       serialized |-> serialized,
       jsxContent |-> jsxContent,
       component |-> IF thrown = {}
                     THEN Component(opts, gen.propsInterface, functionParams, jsxContent)
                     ELSE Null,
       calls |-> Calls(element, 1),
       thrown |-> thrown]

---------------------------------------------------------------------------
(* formatCode *)

\* code.split('\n').map(line => line.trimEnd())
TrimmedLines(text) ==
  [i \in 1..Len(Split(text, <<"\n">>)) |-> TrimEnd(Split(text, <<"\n">>)[i])]

\* a formatter that does not trim the joined text
formatCode_NoTrim(text) == Join(TrimmedLines(text), <<"\n">>) \o <<"\n">>

\* .join('\n').trim() + '\n'
formatCode(text) == Trim(Join(TrimmedLines(text), <<"\n">>)) \o <<"\n">>

---------------------------------------------------------------------------
(* svgOptimizer.ts: the optimizer, the markup parser and their callers.     *)
(* A markup text is known by what the markup parser finds in it: whether   *)
(* it has an svg root, the tree of that root, and whether the optimizer    *)
(* wrote it.  A DOM node is the element tree with what the page knows of   *)
(* it: its tag name as the page reports it, its src and data members, and  *)
(* whether its outerHTML is well-formed XML.                               *)

Markup(found, svg, minified) == [found |-> found, svg |-> svg, minified |-> minified]

Node(tagName, src, data, tree, xml) ==
  [tagName |-> tagName, src |-> src, data |-> data, tree |-> tree, xml |-> xml]

RECURSIVE RemoveEmptyAttrs(_)
\* the optimizer's removeEmptyAttrs plug-in; its other plug-ins are not
\* modelled
RemoveEmptyAttrs(element) ==
  LET NonEmpty(a) == a.value # <<>>
  IN  [tagName |-> element.tagName,
       attributes |-> SelectSeq(element.attributes, NonEmpty),
       children |-> [i \in 1..Len(element.children) |->
                       RemoveEmptyAttrs(element.children[i])],
       textContent |-> element.textContent]

\* optimize(svgContent, defaultConfig).data when the optimizer does not fail
OptimizerData(svgContent) ==
  Markup(svgContent.found,
         IF svgContent.found THEN RemoveEmptyAttrs(svgContent.svg) ELSE svgContent.svg,
         TRUE)

\* an optimizeSVG that returns an empty text when the optimizer fails
optimizeSVG_EmptyOnFailure(svgContent, optimizerThrows) ==
  IF optimizerThrows THEN Markup(FALSE, svgContent.svg, FALSE)
  ELSE OptimizerData(svgContent)

\* try { return optimize(...).data } catch { return svgContent }
optimizeSVG(svgContent, optimizerThrows) ==
  IF optimizerThrows THEN svgContent ELSE OptimizerData(svgContent)

\* element.outerHTML
getSVGContent(element) == Markup(element.xml, element.tree, FALSE)

\* InvalidSVGString is the text `Invalid SVG string`
InvalidSVGString ==
  <<"I", "n", "v", "a", "l", "i", "d", " ", "S", "V", "G", " ", "s", "t", "r", "i",
    "n", "g">>

\* a parseSVGString that returns whatever the parser produced
parseSVGString_NoCheck(svgString) ==
  [threw |-> FALSE, message |-> <<>>,
   element |-> Node("svg", <<>>, <<>>, svgString.svg, TRUE)]

\* doc.querySelector('svg'), or throw new Error('Invalid SVG string')
parseSVGString(svgString) ==
  [threw |-> ~svgString.found,
   message |-> IF svgString.found THEN <<>> ELSE InvalidSVGString,
   element |-> Node("svg", <<>>, <<>>, svgString.svg, TRUE)]

\* an error message without the URL
\* `Failed to fetch SVG`
FetchError_NoUrl(url) == <<"F","a","i","l","e","d"," ","t","o"," ","f","e","t","c","h"," ",
      "S","V","G">>

\* `Failed to fetch SVG from ${url}`
\* `Failed to fetch SVG from `
FetchError(url) == <<"F","a","i","l","e","d"," ","t","o"," ","f","e","t","c","h"," ","S",
      "V","G"," ","f","r","o","m"," ">> \o url

---------------------------------------------------------------------------
(* background.ts: addToHistory.  A history item is known by its timestamp. *)

MAX_HISTORY_ITEMS == 30

\* a trimming that keeps the oldest items
LastItems_KeepOldest(history, n) ==
  IF Len(history) <= n THEN history ELSE SubSeq(history, 1, n)

\* history.slice(-n)
LastItems(history, n) ==
  IF Len(history) <= n THEN history
  ELSE SubSeq(history, Len(history) - n + 1, Len(history))

\* result.history || []
StoredHistory(store) == IF store.hasHistory THEN store.history ELSE <<>>

\* history.push(item); history.slice(-MAX_HISTORY_ITEMS)
TrimmedHistory(store, item) ==
  LastItems(Append(StoredHistory(store), item), MAX_HISTORY_ITEMS)

\* the background worker with no message received
HistoryIdle ==
  /\ storage = [hasHistory |-> FALSE, history |-> <<>>]
  /\ handlers = <<>>
  /\ overlapped = FALSE


---------------------------------------------------------------------------
(* The hover detector (content script with a popover): handleMouseOver,    *)
(* scheduleHide, showPopover, hidePopover and the popover's listeners.     *)
(* The handlers are functions of the detector's fields, held in a record.  *)

\* the SVG elements of the page
Svgs == {"svgA", "svgB"}

\* what the pointer can be over: an SVG, the popover, or the rest of the page
Regions == Svgs \cup {"popover", "page"}

\* `Copy ${this.format.toUpperCase()}`
CopyLabel(fmt) ==
  CASE fmt = "tsx" -> "Copy TSX"
    [] fmt = "jsx" -> "Copy JSX"
    [] fmt = "svg" -> "Copy SVG"

\* the detector's fields and the state of its UI elements
Fields ==
  [enabled |-> enabled, format |-> copyFormat, currentTarget |-> currentTarget,
   popoverVisible |-> popoverVisible, btnText |-> btnText, highlight |-> highlight,
   hideTimeout |-> hideTimeout, hideTimer |-> hideTimer, resetTimer |-> resetTimer]

\* scheduleHide(): nothing when hideTimeout is set, else a timer of 300 ms
scheduleHide(d) ==
  IF d.hideTimeout # "null" THEN d
  ELSE [d EXCEPT !.hideTimeout = "handle", !.hideTimer = TRUE]

\* showPopover(element): the highlight and the popover are made visible and
\* the button is labelled with the format
showPopover(d) ==
  [d EXCEPT !.highlight = "visible", !.btnText = CopyLabel(d.format),
            !.popoverVisible = TRUE]

\* hidePopover(): the popover and the highlight lose the class `visible`, and
\* timers of 200 ms are started for the button and the highlight
hidePopover(d) ==
  [d EXCEPT !.popoverVisible = FALSE, !.resetTimer = TRUE,
            !.highlight = IF @ = "visible" THEN "fading" ELSE @]

\* handleMouseOver(e), by the region of e.target: target.closest(...) is the
\* SVG the target is in, popover.contains(target) holds inside the popover.
\* clearTimeout(this.hideTimeout) stops the timer and leaves the field as it
\* is.
handleMouseOver(d, target) ==
  IF ~d.enabled THEN d
  ELSE IF target \in Svgs /\ target # d.currentTarget
       THEN showPopover([d EXCEPT !.hideTimer = IF d.hideTimeout # "null" THEN FALSE ELSE @,
                                  !.currentTarget = target])
       ELSE IF target \notin Svgs /\ target # "popover"
            THEN scheduleHide(d)
            ELSE d

\* the popover's mouseenter listener
popoverMouseEnter(d) ==
  IF d.hideTimeout # "null"
  THEN [d EXCEPT !.hideTimeout = "null", !.hideTimer = FALSE]
  ELSE d

\* the popover's mouseleave listener
popoverMouseLeave(d) == scheduleHide(d)

\* the callback of the timer of scheduleHide
hideCallback(d) ==
  [hidePopover(d) EXCEPT !.currentTarget = "null", !.hideTimeout = "null",
                         !.hideTimer = FALSE]

\* the callbacks of the two timers of hidePopover
resetCallback(d) ==
  [d EXCEPT !.btnText = IF ~d.popoverVisible THEN CopyLabel(d.format) ELSE @,
            !.highlight = IF @ # "visible" THEN "none" ELSE @,
            !.resetTimer = FALSE]

\* the events of a pointer that moves from one region to another, in the
\* order the browser dispatches them: mouseleave of the popover, mouseover on
\* the document, mouseenter of the popover
pointerMoves(d, from, to) ==
  LET left == IF from = "popover" /\ to # "popover" THEN popoverMouseLeave(d) ELSE d
      over == handleMouseOver(left, to)
  IN  IF to = "popover" /\ from # "popover" THEN popoverMouseEnter(over) ELSE over

\* the fields are written back to the variables
Becomes(d) ==
  /\ enabled' = d.enabled
  /\ copyFormat' = d.format
  /\ currentTarget' = d.currentTarget
  /\ popoverVisible' = d.popoverVisible
  /\ btnText' = d.btnText
  /\ highlight' = d.highlight
  /\ hideTimeout' = d.hideTimeout
  /\ hideTimer' = d.hideTimer
  /\ resetTimer' = d.resetTimer

\* the detector after init() with the settings it loaded, before any event
HoverStart(e, fmt) ==
  /\ enabled = e
  /\ copyFormat = fmt
  /\ pointer = "page"
  /\ currentTarget = "null"
  /\ popoverVisible = FALSE
  /\ btnText = "Copy as TSX"
  /\ highlight = "none"
  /\ hideTimeout = "null"
  /\ hideTimer = FALSE
  /\ resetTimer = FALSE

HoverIdle == HoverStart(TRUE, "tsx")

---------------------------------------------------------------------------
(* The popup: PopupController.  The code a conversion returns is kept as   *)
(* the request it was generated for; what the content script answers is    *)
(* chosen by the environment.                                              *)

\* selectedSVGIndex === null
NoIndex == 0 - 1

\* the indexes of the list the popup renders from this.svgs
ListedIndexes == {0, 1}

\* currentCode === '': no code
NoCode == [index |-> NoIndex, format |-> "", componentName |-> ""]

\* the code convertSVGToComponent returns for a CONVERT_SVG request
CodeFor(request) ==
  [index |-> request.index, format |-> request.format,
   componentName |-> request.componentName]

\* `SvgIcon${index + 1}`
DefaultName(index) ==
  CASE index = 0 -> "SvgIcon1"
    [] index = 1 -> "SvgIcon2"

\* this.elements.componentName.value.trim() || 'MyIcon'
ComponentNameOf(value) == IF value = "" THEN "MyIcon" ELSE value

NoName == [name |-> "", extension |-> ""]

\* nothing was copied or downloaded
NoExport == [to |-> "", filename |-> NoName, content |-> NoCode]

\* showConversionPanel(index)
showConversionPanel(index) ==
  /\ selectedSVGIndex' = index
  /\ form' = [form EXCEPT !.componentName = DefaultName(index)]
  /\ panel' = [panel EXCEPT !.selectedIndex = index + 1, !.resultHidden = TRUE,
                            !.panelHidden = FALSE]
  /\ currentCode' = NoCode

\* the request convertSVG sends, read from the fields and the form
RequestOf(index, f) ==
  [index |-> index, format |-> f.format, componentName |-> ComponentNameOf(f.componentName)]

\* a call of convertSVG that has not sent its request
NoRequest == [index |-> NoIndex, format |-> "", componentName |-> ""]

\* what the tab can answer a request with: the content script answers an
\* index that is null with ERROR
Outcomes(request) ==
  {"ERROR", "other", "rejected"}
  \cup (IF request.index # NoIndex THEN {"SVG_CONVERTED"} ELSE {})

\* the Convert button when convertSVG ends after its request was answered
\* with the outcome: the finally clause
ButtonAfter_NoFinally(outcome) ==
  IF outcome = "rejected" THEN [text |-> "Converting...", disabled |-> TRUE]
  ELSE [text |-> "Convert", disabled |-> FALSE]

ButtonAfter(outcome) == [text |-> "Convert", disabled |-> FALSE]

\* the popup after construction: nothing selected, tsx checked
PopupIdle ==
  /\ selectedSVGIndex = NoIndex
  /\ currentCode = NoCode
  /\ currentFormat = "tsx"
  /\ form = [componentName |-> "", format |-> "tsx"]
  /\ panel = [panelHidden |-> TRUE, resultHidden |-> TRUE, selectedIndex |-> 0,
              codeOutput |-> NoCode]
  /\ convertBtn = [text |-> "Convert", disabled |-> FALSE]
  /\ conversions = <<>>
  /\ exported = NoExport

---------------------------------------------------------------------------
(* background.ts: updateBadge *)

\* sender.tab is undefined: tabId is undefined
NoTab == 0

Tabs == {1, 2}

Digit(d) ==
  CASE d = 0 -> "0" [] d = 1 -> "1" [] d = 2 -> "2" [] d = 3 -> "3" [] d = 4 -> "4"
    [] d = 5 -> "5" [] d = 6 -> "6" [] d = 7 -> "7" [] d = 8 -> "8" [] d = 9 -> "9"

\* String(count) for a count that is not negative
RECURSIVE String(_)
String(count) ==
  IF count < 10 THEN <<Digit(count)>>
  ELSE Append(String(count \div 10), Digit(count % 10))

\* const badgeText = count > 0 ? String(count) : ''
BadgeText_Always(count) == String(count)

BadgeText(count) == IF count > 0 THEN String(count) ELSE <<>>

\* const badgeColor = count > 0 ? '#3b82f6' : '#6b7280'
BadgeColor(count) == IF count > 0 THEN "#3b82f6" ELSE "#6b7280"

\* no UPDATE_BADGE message has come from the tab
NoCount == 0 - 1

\* the badges before any message: no text, the browser's colour
BadgeIdle ==
  /\ badge = [t \in Tabs |-> [text |-> <<>>, color |-> "default"]]
  /\ counted = [t \in Tabs \cup {NoTab} |-> NoCount]

---------------------------------------------------------------------------
(* content.ts: createOverlays and removeOverlays.  They act on the map of  *)
(* overlays and on the overlay elements that are children of document.body *)

\* new Map(): no overlay
NoOverlays == [i \in {} |-> 0]

\* the overlay createOverlays builds for the element at an index: its
\* dataset.svgIndex, the text of its label, and the element whose rectangle
\* it takes
Overlay(index, element) ==
  [svgIndex |-> index, label |-> <<"S","V","G"," ","#">> \o String(index + 1),
        covers |-> element]

\* removeOverlays(): every overlay of the map is removed from the page, and
\* the map is cleared
removeOverlays_MapOnly(ui) == [overlays |-> NoOverlays, body |-> ui.body]

removeOverlays(ui) ==
  [overlays |-> NoOverlays,
   body |-> SelectSeq(ui.body,
                      LAMBDA o : \A i \in DOMAIN ui.overlays : ui.overlays[i] # o)]

\* createOverlays(): removeOverlays(), then one overlay for each element of
\* svgElements, appended to document.body and set in the map at its index
createOverlays(ui, elements) ==
  LET created == [i \in 0..(Len(elements) - 1) |-> Overlay(i, elements[i + 1])]
  IN  [overlays |-> created,
       body |-> removeOverlays(ui).body \o
                  [k \in 1..Len(elements) |-> created[k - 1]]]
---------------------------------------------------------------------------
(* Inputs: element trees and options *)

MaxAttrs == 2      \* attributes on the varied element
MaxDepth == 3      \* nesting depth of the varied trees
MaxChildren == 2   \* children per nested element
MaxCodeLen == 4    \* length of the varied texts given to formatCode
MaxFormats == 2    \* successive applications of formatCode to one text
MaxMessages == 1   \* messages the content script handles
MaxAdds == 3       \* ADD_HISTORY messages the background worker receives
MaxToggles == 3    \* TOGGLE_OVERLAY messages the content script handles
MaxConversions == 1 \* clicks on the popup's Convert button
MaxCount == 11     \* SVG elements a page reports to the badge

Attr(n, v) == [name |-> n, value |-> v]

\* what the generator reads of a DOM Element: tagName, attributes (name and
\* value, in order), children (the child elements) and textContent
Element(tag, attrs, kids, text) ==
  [tagName |-> tag, attributes |-> attrs, children |-> kids, textContent |-> text]

\* the input SVG of the README's example
ExamplePath ==
  Element(<<"p","a","t","h">>,
          \* `M12 2L2 7L12 12L22 7L12 2Z`
          <<Attr(<<"d">>, <<"M","1","2"," ","2","L","2"," ","7","L","1","2"," ","1","2","L",
                "2","2"," ","7","L","1","2"," ","2","Z">>),
            \* `currentColor`
            Attr(<<"f","i","l","l">>, <<"c","u","r","r","e","n","t","C","o","l","o",
                  "r">>)>>, <<>>, <<>>)
ExampleSvg ==
  Element(<<"s","v","g">>,
          \* `height`
          <<Attr(<<"w","i","d","t","h">>, <<"2","4">>), Attr(<<"h","e","i","g","h","t">>,
                <<"2","4">>),
            \* `viewBox`  `0 0 24 24`
            Attr(<<"v","i","e","w","B","o","x">>, <<"0"," ","0"," ","2","4"," ","2","4">>),
                  Attr(<<"f","i","l","l">>, <<"n","o","n","e">>)>>,
          <<ExamplePath>>, <<"\n"," "," ","\n">>)

\* MyIcon is the text `MyIcon`
MyIcon == <<"M", "y", "I", "c", "o", "n">>

Flags == {"width", "height", "className", "color"}
FlagOrder == <<"width", "height", "className", "color">>
Formats == {"tsx", "jsx"}

\* every addProps object: any of the four flags, each true or false, in any order
AllAddProps ==
  {s \in UNION {[1..n -> Flags \X BOOLEAN] : n \in 0..4} :
     \A i, j \in 1..Len(s) : i # j => s[i][1] # s[j][1]}

\* the addProps object that lists exactly the flags of fs, each true
AddPropsOf(fs) ==
  LET Listed(f) == f \in fs
  IN  [i \in 1..Len(SelectSeq(FlagOrder, Listed)) |->
         <<SelectSeq(FlagOrder, Listed)[i], TRUE>>]

Opts(format, componentName, addProps) ==
  [format |-> format, componentName |-> componentName,
   hasAddProps |-> TRUE, addProps |-> addProps]

\* options without an addProps member
OptsNoAddProps(format, componentName) ==
  [format |-> format, componentName |-> componentName,
   hasAddProps |-> FALSE, addProps |-> <<>>]

SubsetOptions(formats, names) ==
  {Opts(f, n, AddPropsOf(fs)) : f \in formats, n \in names, fs \in SUBSET Flags}
    \cup {OptsNoAddProps(f, n) : f \in formats, n \in names}

\* the attributes the varied element draws from
AttrPool ==
  << Attr(<<"f","i","l","l">>, <<"a","\"","b">>),
     Attr(<<"i","d">>, <<"\"","x","\""," ","y">>),
     \* `stroke`
     Attr(<<"s","t","r","o","k","e">>, <<"\"">>),
     Attr(<<"c","l","a","s","s">>, <<"i","c","o","n">>),
     Attr(<<"w","i","d","t","h">>, <<"2","4">>),
     \* `http://www.w3.org/2000/svg`
     Attr(<<"x","m","l","n","s">>, <<"h","t","t","p",":","/","/","w","w","w",".","w","3",
           ".","o","r","g","/","2","0","0","0","/","s","v","g">>),
     \* `hidden`
     Attr(<<"h","i","d","d","e","n">>, <<>>) >>

\* path data written on two lines
\* `M0 0\nL9 9`
MultiLinePath == Attr(<<"d">>, <<"M","0"," ","0","\n","L","9"," ","9">>)

\* attribute lists of at most MaxAttrs attributes with distinct names
AttrLists ==
  {s \in UNION {[1..n -> 1..Len(AttrPool)] : n \in 0..MaxAttrs} :
     \A i, j \in 1..Len(s) : i # j => s[i] # s[j]}

AttrsOf(s) == [i \in 1..Len(s) |-> AttrPool[s[i]]]

\* text contents: absent, empty, blank, and with text
Texts == {Null, <<>>, <<" "," ">>, <<"\n","\t"," ">>, <<"H","i">>, <<" ","a"," ","b","\n">>}

\* `feBlend`
LeafTags == {<<"p","a","t","h">>, <<"f","e","B","l","e","n","d">>}

RECURSIVE Nest(_, _, _)
\* leaf carried to depth d, each ancestor having k child elements of which the
\* last is the next ancestor (or the leaf) and the others are the example path
Nest(d, k, leaf) ==
  IF d = 1 THEN leaf
  \* `stroke-width`
  ELSE Element(<<"g">>, <<Attr(<<"s","t","r","o","k","e","-","w","i","d","t","h">>,
        <<"2">>)>>,
               [i \in 1..k |-> IF i = k THEN Nest(d - 1, k, leaf) ELSE ExamplePath],
               <<"\n">>)

\* (A) the README example under every options value
ExampleInputs ==
  {<<ExampleSvg, Opts(f, MyIcon, a)>> : f \in Formats, a \in AllAddProps}
    \cup {<<ExampleSvg, OptsNoAddProps(f, MyIcon)>> : f \in Formats}

\* (B) one element with every attribute list, alone and with a child
AttrInputs ==
  {<<Element(<<"s","v","g">>, AttrsOf(s), kids, <<>>), o>> :
     s \in AttrLists, kids \in {<<>>, <<ExamplePath>>},
     o \in SubsetOptions({"tsx"}, {MyIcon})}

\* (C) a leaf of every text content at every depth
NestedInputs ==
  {<<Nest(d, k, Element(tag, attrs, <<>>, text)), o>> :
     d \in 1..MaxDepth, k \in 1..MaxChildren, tag \in LeafTags,
     attrs \in {<<>>, <<AttrPool[1]>>, <<AttrPool[5], AttrPool[4]>>, <<MultiLinePath>>},
     text \in Texts,
     o \in {OptsNoAddProps("tsx", MyIcon), Opts("tsx", MyIcon, AddPropsOf(Flags))}}

\* (D) other component names, the empty one included
NameInputs ==
  {<<ExamplePath, o>> : o \in SubsetOptions(Formats, {<<>>, <<"A">>})}

\* (G) an element without attributes, children and text, with an empty
\* component name
BareInputs ==
  {<<Element(<<"s","v","g">>, <<>>, <<>>, Null), o>> : o \in SubsetOptions(Formats, {<<>>})}

\* attribute lists for the templating pass: names that end in a prop's
\* attribute name before the attribute itself, and a value that ends in
\* `fill=` before a stroke attribute
TemplateAttrLists ==
  \* `data-width`
  {<<Attr(<<"d","a","t","a","-","w","i","d","t","h">>, <<"5">>), Attr(<<"w","i","d","t",
        "h">>, <<"2","4">>)>>,
   \* `markerWidth`
   <<Attr(<<"m","a","r","k","e","r","W","i","d","t","h">>, <<"3">>), Attr(<<"f","i","l",
         "l">>, <<"r","e","d">>)>>,
   \* `data-fill`  `stroke`
   <<Attr(<<"d","a","t","a","-","f","i","l","l">>, <<"x">>), Attr(<<"s","t","r","o","k",
         "e">>, <<"b","l","u","e">>)>>,
   \* `stroke`
   <<Attr(<<"i","d">>, <<"f","i","l","l","=">>), Attr(<<"s","t","r","o","k","e">>, <<"r",
         "e","d">>)>>,
   \* `height`
   <<Attr(<<"c","l","a","s","s">>, <<"i","c","o","n">>), Attr(<<"h","e","i","g","h","t">>,
         <<"1","e","m">>)>>}

\* (H) those lists on a leaf with a text content at every depth
TemplateInputs ==
  {<<Nest(d, 1, Element(<<"t","e","x","t">>, attrs, <<>>, text)), o>> :
     d \in 1..MaxDepth, attrs \in TemplateAttrLists, text \in {<<>>, <<"H","i">>},
     o \in SubsetOptions({"tsx"}, {MyIcon})}

\* attribute lists for the form and the order of the emitted attributes: two
\* names with one translation, values equal to the name before and after
\* translation, and names out of alphabetical order around a stripped one
FormAttrLists ==
  \* `className`
  {<<Attr(<<"c","l","a","s","s">>, <<"a">>), Attr(<<"c","l","a","s","s","N","a","m","e">>,
        <<"b">>)>>,
   \* `stroke-width`
   <<Attr(<<"s","t","r","o","k","e","-","w","i","d","t","h">>, <<"1">>), Attr(<<"f","i","l",
         "l">>, <<"r","e","d">>),
     \* `strokeWidth`
     Attr(<<"s","t","r","o","k","e","W","i","d","t","h">>, <<"2">>)>>,
   <<Attr(<<"c","l","a","s","s">>, <<"c","l","a","s","s">>)>>,
   \* `className`
   <<Attr(<<"c","l","a","s","s">>, <<"c","l","a","s","s","N","a","m","e">>), Attr(<<"i",
         "d">>, <<"I","D">>)>>,
   \* `hidden`  `hidden`  `disabled`
   <<Attr(<<"h","i","d","d","e","n">>, <<"h","i","d","d","e","n">>), Attr(<<"d","i","s","a",
         "b","l","e","d">>, <<>>)>>,
   <<Attr(<<"z">>, <<"1">>), Attr(<<"a">>, <<"2">>), Attr(<<"m">>, <<>>)>>,
   \* `stroke-width`
   <<Attr(<<"x","m","l","n","s">>, <<"u">>), Attr(<<"s","t","r","o","k","e","-","w","i","d",
         "t","h">>, <<"2">>),
     Attr(<<"c","l","a","s","s">>, <<"x">>), Attr(<<"i","d">>, <<"i","d">>)>>}

\* (I) those lists on the root and on a child of the root
FormInputs ==
  {<<Nest(d, 1, Element(<<"s","v","g">>, attrs, <<>>, <<>>)), o>> :
     d \in {1, 2}, attrs \in FormAttrLists,
     o \in {OptsNoAddProps("tsx", MyIcon), Opts("tsx", MyIcon, AddPropsOf(Flags))}}

\* (J) parents that have a text content of their own, a text with a line
\* break inside, and tag names with capitals, on the root and below it
TextInputs ==
  {<<Nest(d, 1, e), o>> :
     d \in {1, 2},
     e \in {Element(<<"g">>, <<Attr(<<"i","d">>, <<"O","w","n">>)>>,
                    \* `Own Hi`
                    <<Element(<<"t","e","x","t">>, <<>>, <<>>, <<"H","i">>)>>, <<"O","w",
                          "n"," ","H","i">>),
            \* ` Hello\nWorld `
            Element(<<"t","e","x","t">>, <<Attr(<<"x">>, <<"1">>)>>, <<>>, <<" ","H","e",
                  "l","l","o","\n","W","o","r","l","d"," ">>),
            \* `linearGradient`
            Element(<<"l","i","n","e","a","r","G","r","a","d","i","e","n","t">>, <<>>,
                    \* `offset`
                    <<Element(<<"S","T","O","P">>, <<Attr(<<"o","f","f","s","e","t">>,
                          <<"0">>)>>, <<>>, <<>>),
                      \* `clipPath`
                      Element(<<"c","l","i","p","P","a","t","h">>, <<>>, <<>>, <<"t">>)>>,
                            <<>>)},
     o \in {OptsNoAddProps("tsx", MyIcon), Opts("tsx", MyIcon, AddPropsOf(Flags))}}

\* attribute names outside the translation table: plain ones, ones that end
\* in a prop's attribute name, the namespace declarations, and two names
\* that every object inherits
OtherNames ==
  \* `viewBox`  `data-width`  `markerWidth`  `data-fill`
  {<<"v","i","e","w","B","o","x">>, <<"d","a","t","a","-","w","i","d","t","h">>, <<"m","a",
        "r","k","e","r","W","i","d","t","h">>, <<"d","a","t","a","-","f","i","l","l">>,
   \* `xmlns:svg`  `constructor`  `toString`
   <<"x","m","l","n","s">>, <<"x","m","l","n","s",":","s","v","g">>, <<"c","o","n","s","t",
         "r","u","c","t","o","r">>, <<"t","o","S","t","r","i","n","g">>}

TableKeys == {attributeMap[k][1] : k \in 1..Len(attributeMap)}

\* (E) one element with one attribute of every name, before a fill attribute
NamedInputs ==
  {<<Element(<<"s","v","g">>, <<Attr(n, <<"v","1">>), Attr(<<"f","i","l","l">>, <<"r","e",
        "d">>)>>, <<>>, <<>>), o>> :
     n \in TableKeys \cup OtherNames,
     o \in {OptsNoAddProps("tsx", MyIcon), Opts("tsx", MyIcon, AddPropsOf(Flags))}}

\* values of a namespace declaration: empty, equal to the name, quoted, a URL
NamespaceValues ==
  \* `http://www.w3.org/2000/svg`
  {<<>>, <<"x","m","l","n","s">>, <<"a","\"","b">>, <<"h","t","t","p",":","/","/","w","w",
        "w",".","w","3",".","o","r","g","/","2","0","0","0","/","s","v","g">>}

\* (F) namespace declarations on a leaf at every depth, among other attributes
NamespaceInputs ==
  {<<Nest(d, 1, Element(<<"p","a","t","h">>, attrs, <<>>, <<>>)), o>> :
     d \in 1..MaxDepth,
     attrs \in UNION {{<<Attr(<<"x","m","l","n","s">>, v), Attr(<<"f","i","l","l">>, <<"n",
           "o","n","e">>)>>,
                       \* `xmlns:svg`
                       <<Attr(<<"w","i","d","t","h">>, <<"2","4">>), Attr(<<"x","m","l","n",
                             "s",":","s","v","g">>, v)>>,
                       \* `xmlns:svg`
                       <<Attr(<<"x","m","l","n","s",":","s","v","g">>, v), Attr(<<"x","m",
                             "l","n","s">>, v)>>} :
                        v \in NamespaceValues},
     o \in {OptsNoAddProps("tsx", MyIcon), Opts("tsx", MyIcon, AddPropsOf(Flags))}}

Inputs ==
  ExampleInputs \cup AttrInputs \cup NestedInputs \cup NameInputs
    \cup NamedInputs \cup NamespaceInputs \cup BareInputs
    \cup TemplateInputs \cup FormInputs \cup TextInputs

---------------------------------------------------------------------------
(* The state machine: choose the arguments, call the generator *)

NoResult ==
  [propsInterface |-> Null, propsDestructure |-> Null, propsUsage |-> <<>>,
   serialized |-> Null, jsxContent |-> Null, component |-> Null, calls |-> {},
   thrown |-> {}]

\* the characters of the varied texts given to formatCode
CodeChars == {"x", " ", "\n", "\t"}

\* texts given to formatCode: every text of at most MaxCodeLen characters, a
\* text with carriage returns, and two generated components
CodeTexts ==
  UNION {[1..n -> CodeChars] : n \in 0..MaxCodeLen}
    \* ` \r\n  a(\r\n b ) \r\n\r\n`
    \cup {<<" ","\r","\n"," "," ","a","(","\r","\n"," ","b"," ",")"," ","\r","\n","\r",
          "\n">>,
          convertSVGToComponent(ExampleSvg, OptsNoAddProps("jsx", MyIcon)).component,
          convertSVGToComponent(ExampleSvg, Opts("tsx", MyIcon, AddPropsOf(Flags))).component}

\* no caller of formatCode
FormatIdle == code = Null /\ formatted = <<>>

\* no call of the generator pending
GeneratorIdle ==
  /\ svgElement = ExampleSvg
  /\ options = OptsNoAddProps("jsx", MyIcon)
  /\ pc = "idle"
  /\ out = NoResult

---------------------------------------------------------------------------
(* content.ts: SVGDetector.handleMessage and SVGDetector.convertSVG, one   *)
(* message at a time.  convertSVG keeps everything in locals, so messages  *)
(* in flight together do not affect one another.  A step runs              *)
(* from one await to the next; what the network, the optimizer and the     *)
(* markup parser do is chosen by the environment.                          *)

\* the SVG sources the detector found on the page: inline elements, then
\* images, then objects
PageElements ==
  << Node("svg", <<>>, <<>>, ExampleSvg, TRUE),
     Node("svg", <<>>, <<>>,
          \* `hidden`
          Element(<<"s","v","g">>, <<Attr(<<"h","i","d","d","e","n">>, <<>>), Attr(<<"f",
                "i","l","l">>, <<"r","e","d">>)>>,
                  <<>>, <<>>), TRUE),
     \* an inline element whose outerHTML is not well-formed XML
     Node("svg", <<>>, <<>>,
          Element(<<"s","v","g">>, <<>>,
                  \* `xlink:href`
                  <<Element(<<"u","s","e">>, <<Attr(<<"x","l","i","n","k",":","h","r","e",
                        "f">>, <<"#","a">>)>>, <<>>, <<>>)>>,
                  <<>>), FALSE),
     Node("IMG", <<"a",".","s","v","g">>, <<>>, ExamplePath, TRUE),
     \* an image whose src the page removed after the detection
     Node("IMG", <<>>, <<>>, ExamplePath, TRUE),
     Node("OBJECT", <<>>, <<"b",".","s","v","g">>, ExamplePath, TRUE) >>

\* what a URL can answer with: an SVG document, or a page that is not one
Bodies ==
  {Markup(TRUE, ExampleSvg, FALSE),
   \* `hidden`
   Markup(TRUE, Element(<<"s","v","g">>, <<Attr(<<"h","i","d","d","e","n">>, <<>>)>>,
         <<ExamplePath>>, <<>>), FALSE),
   \* `Not Found`
   Markup(FALSE, Element(<<"h","t","m","l">>, <<>>, <<>>, <<"N","o","t"," ","F","o","u","n",
         "d">>), FALSE)}

\* the CONVERT_SVG messages the popup can send; an index past the end of
\* svgElements included
ConvertMessages ==
  {[type |-> "CONVERT_SVG",
    data |-> [index |-> i, optimize |-> b, format |-> o.format,
              componentName |-> o.componentName,
              hasAddProps |-> o.hasAddProps, addProps |-> o.addProps]] :
     i \in 0..Len(PageElements), b \in BOOLEAN,
     o \in {OptsNoAddProps("jsx", MyIcon), Opts("tsx", MyIcon, AddPropsOf(Flags))}}

\* the other messages the listener can receive: the three remaining cases
\* of the switch, a TOGGLE_OVERLAY without data, and a type the switch does
\* not name
OtherMessages ==
  {[type |-> "GET_SVGS"], [type |-> "TOGGLE_OVERLAY"], [type |-> "SVG_SELECTED"]}
  \cup {[type |-> "TOGGLE_OVERLAY", data |-> [enabled |-> b]] : b \in BOOLEAN}
  \cup {[type |-> "HIGHLIGHT_SVG", data |-> [index |-> i]] : i \in {0, Len(PageElements)}}

Messages == ConvertMessages \cup OtherMessages

NoMessage == [type |-> "none"]

NoLocals == [src |-> <<>>, svgText |-> Markup(FALSE, ExamplePath, FALSE),
             svgElement |-> PageElements[1], svgContent |-> Markup(FALSE, ExamplePath, FALSE)]

NoTrace == [fetches |-> <<>>, optimizations |-> <<>>, parses |-> <<>>, generated |-> 0]

\* the content script after construction, before any message
ContentIdle ==
  /\ svgElements = PageElements
  /\ message = NoMessage
  /\ cpc = "idle"
  /\ locals = NoLocals
  /\ responses = <<>>
  /\ trace = NoTrace
  /\ requests = <<>>
  /\ isOverlayEnabled = FALSE
  /\ overlays = NoOverlays
  /\ bodyOverlays = <<>>

InitContent == GeneratorIdle /\ FormatIdle /\ ContentIdle /\ HistoryIdle /\ HoverIdle
  /\ PopupIdle /\ BadgeIdle

\* const options = { format, componentName, addProps }
OptionsOf(data) ==
  [format |-> data.format, componentName |-> data.componentName,
   hasAddProps |-> data.hasAddProps, addProps |-> data.addProps]

\* sendResponse({ type: 'ERROR', data: { message } }) in the catch clause of
\* handleMessage
ErrorResponse(text) == [type |-> "ERROR", data |-> [message |-> text]]

\* the catch clause of handleMessage ends the handling of the message
Fail(text, tr) ==
  /\ responses' = Append(responses, ErrorResponse(text))
  /\ cpc' = "idle"
  /\ trace' = tr
  /\ UNCHANGED <<svgElements, isOverlayEnabled, overlays, bodyOverlays, locals, generatorVars,
               formatVars, otherScripts>>

\* convertSVGToComponent(processedSVG, options), getSVGContent(svgElement) and
\* sendResponse({ type: 'SVG_CONVERTED', data: result })
Finish(data, processedSVG, element, tr) ==
  LET result == convertSVGToComponent(processedSVG.tree, OptionsOf(data))
  IN  /\ svgElement' = processedSVG.tree
      /\ options' = OptionsOf(data)
      /\ out' = result
      /\ pc' = "done"
      /\ trace' = [tr EXCEPT !.generated = @ + 1]
      /\ responses' =
           Append(responses,
                  IF result.thrown # {} THEN ErrorResponse(TypeError)
                  ELSE [type |-> "SVG_CONVERTED",
                        data |-> [code |-> result.component,
                                  originalSVG |-> getSVGContent(element)]])
      /\ cpc' = "idle"
      /\ UNCHANGED <<svgElements, isOverlayEnabled, overlays, bodyOverlays, locals, formatVars, otherScripts>>

\* convertSVG from `let processedSVG = svgElement` to its next await
Process(data, element, tr) ==
  IF data.optimize
  THEN /\ cpc' = "optimize"
       /\ locals' = [locals EXCEPT !.svgElement = element,
                                   !.svgContent = getSVGContent(element)]
       /\ trace' = tr
       /\ UNCHANGED <<svgElements, isOverlayEnabled, overlays, bodyOverlays, responses,
                      generatorVars, formatVars, otherScripts>>
  ELSE Finish(data, element, element, tr)

\* the overlays in the map and on the page
Shown == [overlays |-> overlays, body |-> bodyOverlays]

\* getSVGInfo(): one entry for each detected source
getSVGInfo ==
  [i \in 1..Len(svgElements) |->
     [index |-> i - 1, isExternal |-> svgElements[i].tagName # "svg"]]

\* the default clause of the switch: the calls of sendResponse it makes
DefaultCase_Silent(m) == <<>>

\* `Unknown message type`
DefaultCase(m) == <<ErrorResponse(<<"U","n","k","n","o","w","n"," ","m","e","s","s","a","g",
      "e"," ","t","y","p","e">>)>>

\* a case of the switch that has no await: its calls of sendResponse and
\* what it leaves in isOverlayEnabled, in overlays and on the page
Answer(sent, overlayEnabled, shown) ==
  /\ responses' = responses \o sent
  /\ isOverlayEnabled' = overlayEnabled
  /\ overlays' = shown.overlays
  /\ bodyOverlays' = shown.body
  /\ cpc' = "idle"
  /\ trace' = NoTrace
  /\ UNCHANGED <<svgElements, locals, generatorVars, formatVars, otherScripts>>

\* the CONVERT_SVG case of handleMessage up to the first await of convertSVG
HandleConvert(m) ==
  IF m.data.index >= Len(svgElements)
  THEN \* element is undefined: element.tagName signals a TypeError
       \* `Cannot read properties of undefined (reading 'tagName')`
       Fail(<<"C","a","n","n","o","t"," ","r","e","a","d"," ","p","r","o","p","e","r","t",
             "i","e","s"," ","o","f"," ","u","n","d","e","f","i","n","e","d"," ","(","r",
             "e","a","d","i","n","g"," ","'","t","a","g","N","a","m","e","'",")">>, NoTrace)
  ELSE LET element == svgElements[m.data.index + 1]
           src == IF Truthy(element.src) THEN element.src ELSE element.data
       IN  IF element.tagName # "svg"
           THEN IF ~Truthy(src)
                \* `External SVG has no source URL`
                THEN Fail(<<"E","x","t","e","r","n","a","l"," ","S","V","G"," ","h","a","s",
                      " ","n","o"," ","s","o","u","r","c","e"," ","U","R","L">>, NoTrace)
                ELSE \* fetchAndOptimizeSVG(src): await fetch(url)
                     /\ cpc' = "fetch"
                     /\ locals' = [NoLocals EXCEPT !.src = src]
                     /\ trace' = [NoTrace EXCEPT
                                    !.fetches = <<[url |-> src,
                                                   settled |-> "pending"]>>]
                     /\ UNCHANGED <<svgElements, isOverlayEnabled, overlays, bodyOverlays, responses,
                                    generatorVars, formatVars, otherScripts>>
           ELSE Process(m.data, element, NoTrace)

\* handleMessage from the listener's call to its first await, or to its end
\* when the case of the switch has none
Handle(m) ==
  /\ message' = m
  /\ requests' = Append(requests, m)
  /\ CASE m.type = "GET_SVGS" ->
            Answer(<<[type |-> "SVGS_FOUND",
                      data |-> [svgs |-> getSVGInfo, count |-> Len(svgElements)]]>>,
                   isOverlayEnabled, Shown)
       [] m.type = "TOGGLE_OVERLAY" ->
            IF "data" \notin DOMAIN m
            THEN \* message.data is undefined: message.data.enabled signals
                 \* a TypeError before anything is assigned
                 \* `Cannot read properties of undefined (reading 'enabled')`
                 Fail(<<"C","a","n","n","o","t"," ","r","e","a","d"," ","p","r","o","p","e",
                       "r","t","i","e","s"," ","o","f"," ","u","n","d","e","f","i","n","e",
                       "d"," ","(","r","e","a","d","i","n","g"," ","'","e","n","a","b","l",
                       "e","d","'",")">>,
                      NoTrace)
            ELSE \* createOverlays() or removeOverlays()
                 Answer(<<[type |-> "SUCCESS"]>>, m.data.enabled,
                        IF m.data.enabled THEN createOverlays(Shown, svgElements)
                        ELSE removeOverlays(Shown))
       [] m.type = "CONVERT_SVG" -> HandleConvert(m)
       [] m.type = "HIGHLIGHT_SVG" ->
            \* this.overlays.get(message.data.index) is highlighted when
            \* there is one
            Answer(<<[type |-> "SUCCESS"]>>, isOverlayEnabled, Shown)
       [] OTHER -> Answer(DefaultCase(m), isOverlayEnabled, Shown)

\* the listener receives a message
HandleMessage ==
  /\ cpc = "idle"
  /\ Len(requests) < MaxMessages
  /\ \E m \in Messages : Handle(m)

\* fetch(url) or response.text() rejects: the catch clause of
\* fetchAndOptimizeSVG signals an error that names the URL
FetchFails ==
  /\ cpc = "fetch"
  /\ Fail(FetchError(locals.src),
          [trace EXCEPT !.fetches[Len(trace.fetches)].settled = "rejected"])
  /\ UNCHANGED <<message, requests>>

\* fetch(url) and response.text() resolve: optimizeSVG(svgText) is awaited
FetchResolves ==
  /\ cpc = "fetch"
  /\ \E body \in Bodies : locals' = [locals EXCEPT !.svgText = body]
  /\ cpc' = "optimizeFetched"
  /\ trace' = [trace EXCEPT !.fetches[Len(trace.fetches)].settled = "resolved"]
  /\ UNCHANGED <<svgElements, isOverlayEnabled, overlays, bodyOverlays, message, requests, responses,
                 generatorVars, formatVars, otherScripts>>

\* optimizeSVG(svgText) returns inside fetchAndOptimizeSVG, then
\* parseSVGString(optimized); an error of the parser is caught by the same
\* catch clause
OptimizeFetchedReturns ==
  /\ cpc = "optimizeFetched"
  /\ UNCHANGED <<message, requests>>
  /\ \E optimizerThrows \in BOOLEAN :
       LET optimized == optimizeSVG(locals.svgText, optimizerThrows)
           parsed == parseSVGString(optimized)
           tr == [trace EXCEPT
                    !.optimizations =
                       Append(@, [input |-> locals.svgText, threw |-> optimizerThrows,
                                  returned |-> optimized]),
                    !.parses = Append(@, [input |-> optimized, threw |-> parsed.threw])]
       IN  IF parsed.threw
           THEN Fail(FetchError(locals.src), tr)
           ELSE Process(message.data, parsed.element, tr)

\* optimizeSVG(svgContent) returns inside convertSVG, then
\* parseSVGString(optimized)
OptimizeReturns ==
  /\ cpc = "optimize"
  /\ UNCHANGED <<message, requests>>
  /\ \E optimizerThrows \in BOOLEAN :
       LET optimized == optimizeSVG(locals.svgContent, optimizerThrows)
           parsed == parseSVGString(optimized)
           tr == [trace EXCEPT
                    !.optimizations =
                       Append(@, [input |-> locals.svgContent, threw |-> optimizerThrows,
                                  returned |-> optimized]),
                    !.parses = Append(@, [input |-> optimized, threw |-> parsed.threw])]
       IN  IF parsed.threw
           THEN Fail(parsed.message, tr)
           ELSE Finish(message.data, parsed.element, locals.svgElement, tr)

NextContent ==
  \/ HandleMessage
  \/ FetchFails
  \/ FetchResolves
  \/ OptimizeFetchedReturns
  \/ OptimizeReturns

SpecContent == InitContent /\ [][NextContent]_vars

\* control leaves an await: handleMessage goes on to its next await or to
\* its end
Resumes == cpc # "idle" /\ cpc' \in {"idle", "optimize", "optimizeFetched"}

\* every promise handleMessage awaits is settled, fetch() and response.text()
\* by the browser and optimizeSVG by its own try/catch, so no await lasts
\* for ever
SpecContentFair == SpecContent /\ WF_cpc(Resumes)
Init ==
  /\ \E inp \in Inputs : svgElement = inp[1] /\ options = inp[2]
  /\ pc = "ready"
  /\ out = NoResult
  /\ FormatIdle
  /\ ContentIdle
  /\ HistoryIdle
  /\ HoverIdle
  /\ PopupIdle /\ BadgeIdle

Convert ==
  /\ pc = "ready"
  /\ out' = convertSVGToComponent(svgElement, options)
  /\ pc' = "done"
  /\ svgElement' = ElementAfter(svgElement)
  /\ options' = OptionsAfter(options)
  /\ UNCHANGED <<formatVars, contentVars, otherScripts>>

Next == Convert

Spec == Init /\ [][Next]_vars


---------------------------------------------------------------------------
(* formatCode applied by a caller to its own result *)

InitFormat ==
  /\ GeneratorIdle
  /\ ContentIdle
  /\ HistoryIdle
  /\ HoverIdle
  /\ PopupIdle /\ BadgeIdle
  /\ code \in CodeTexts
  /\ formatted = <<>>

\* the text the caller passes next: its own text first, then the last result
FormatArgument == IF formatted = <<>> THEN code ELSE formatted[Len(formatted)]

\* formatCode(code), then formatCode of what it returned
FormatCode ==
  /\ Len(formatted) < MaxFormats
  /\ formatted' = Append(formatted, formatCode(FormatArgument))
  /\ UNCHANGED <<code, generatorVars, contentVars, otherScripts>>

NextFormat == FormatCode

SpecFormat == InitFormat /\ [][NextFormat]_vars

---------------------------------------------------------------------------
(* background.ts: the onMessage listener and addToHistory.  A call of      *)
(* addToHistory stands at its storage read, at its storage write, or has   *)
(* ended; the storage answers the calls in any order.                      *)

\* the items 1..n in the order they were added
Items(n) == [i \in 1..n |-> i]

\* what the storage holds when the worker starts: no history key, an empty
\* history, or a history one item short of full, full
StoredAtStart ==
  {[hasHistory |-> FALSE, history |-> <<>>],
   [hasHistory |-> TRUE, history |-> <<>>],
   [hasHistory |-> TRUE, history |-> Items(MAX_HISTORY_ITEMS - 1)],
   [hasHistory |-> TRUE, history |-> Items(MAX_HISTORY_ITEMS)]}

InitHistory ==
  /\ GeneratorIdle /\ FormatIdle /\ ContentIdle /\ HoverIdle
  /\ PopupIdle /\ BadgeIdle
  /\ storage \in StoredAtStart
  /\ handlers = <<>>
  /\ overlapped = FALSE

\* the timestamp of the next item: later than every item stored or sent
NextItem == MAX_HISTORY_ITEMS + Len(handlers) + 1

\* an ADD_HISTORY message arrives: the listener calls addToHistory, which
\* runs up to `await chrome.storage.local.get('history')`
ReceiveAddHistory ==
  /\ Len(handlers) < MaxAdds
  /\ handlers' = Append(handlers, [item |-> NextItem, at |-> "get", trimmedHistory |-> <<>>])
  /\ overlapped' = (overlapped \/ \E i \in 1..Len(handlers) : handlers[i].at # "done")
  /\ UNCHANGED <<storage, generatorVars, formatVars, contentVars, hoverVars, popupVars, badgeVars>>

\* the read of a call is answered: push, slice, and
\* `await chrome.storage.local.set({ history: trimmedHistory })`
GetResolves ==
  \E i \in 1..Len(handlers) :
    /\ handlers[i].at = "get"
    /\ handlers' = [handlers EXCEPT
                      ![i].at = "set",
                      ![i].trimmedHistory = TrimmedHistory(storage, handlers[i].item)]
    /\ UNCHANGED <<storage, overlapped, generatorVars, formatVars, contentVars, hoverVars, popupVars, badgeVars>>

\* the write of a call is carried out and answered: the call ends
SetResolves ==
  \E i \in 1..Len(handlers) :
    /\ handlers[i].at = "set"
    /\ storage' = [hasHistory |-> TRUE, history |-> handlers[i].trimmedHistory]
    /\ handlers' = [handlers EXCEPT ![i].at = "done"]
    /\ UNCHANGED <<overlapped, generatorVars, formatVars, contentVars, hoverVars, popupVars, badgeVars>>

NextHistory == ReceiveAddHistory \/ GetResolves \/ SetResolves

SpecHistory == InitHistory /\ [][NextHistory]_vars


---------------------------------------------------------------------------
(* The hover detector: pointer movements, changes of the settings and the  *)
(* timers.  A timer that is running fires in the end.                      *)

InitHover ==
  /\ GeneratorIdle /\ FormatIdle /\ ContentIdle /\ HistoryIdle
  /\ PopupIdle /\ BadgeIdle
  /\ \E e \in BOOLEAN, fmt \in Formats : HoverStart(e, fmt)

\* the pointer moves onto an element of some region; the popover can be
\* entered while it is shown
PointerMoves ==
  /\ \E to \in Regions :
       /\ to = "popover" => popoverVisible
       /\ pointer' = to
       /\ Becomes(pointerMoves(Fields, pointer, to))
  /\ UNCHANGED <<generatorVars, formatVars, contentVars, historyVars, popupVars, badgeVars>>

\* chrome.storage.onChanged: the enabled flag or the format is changed
SettingsChange ==
  /\ \E e \in BOOLEAN, fmt \in Formats :
       /\ <<e, fmt>> # <<enabled, copyFormat>>
       /\ Becomes([Fields EXCEPT !.enabled = e, !.format = fmt])
  /\ UNCHANGED <<pointer, generatorVars, formatVars, contentVars, historyVars, popupVars, badgeVars>>

\* the 300 ms of scheduleHide have passed
HideTimerFires ==
  /\ hideTimer
  /\ Becomes(hideCallback(Fields))
  /\ UNCHANGED <<pointer, generatorVars, formatVars, contentVars, historyVars, popupVars, badgeVars>>

\* the 200 ms of hidePopover have passed
ResetTimerFires ==
  /\ resetTimer
  /\ Becomes(resetCallback(Fields))
  /\ UNCHANGED <<pointer, generatorVars, formatVars, contentVars, historyVars, popupVars, badgeVars>>

NextHover ==
  \/ PointerMoves
  \/ SettingsChange
  \/ HideTimerFires
  \/ ResetTimerFires

SpecHover ==
  /\ InitHover
  /\ [][NextHover]_vars
  /\ WF_vars(HideTimerFires)
  /\ WF_vars(ResetTimerFires)

---------------------------------------------------------------------------
(* The popup: the user's clicks and the answers of the tab.  A call of     *)
(* convertSVG stands at "tab" (await getCurrentTab), at "sent" (await      *)
(* sendMessageToTab) or has ended.                                         *)

InitPopup ==
  /\ GeneratorIdle /\ FormatIdle /\ ContentIdle /\ HistoryIdle /\ HoverIdle
  /\ PopupIdle /\ BadgeIdle

PopupOthers == <<generatorVars, formatVars, contentVars, historyVars, hoverVars, badgeVars>>

\* a click on an item of the list, or an SVG_SELECTED message
SelectSVG ==
  /\ \E index \in ListedIndexes : showConversionPanel(index)
  /\ UNCHANGED <<currentFormat, convertBtn, conversions, exported, PopupOthers>>

\* a click on the close button: hideConversionPanel()
ClosePanel ==
  /\ ~panel.panelHidden
  /\ panel' = [panel EXCEPT !.panelHidden = TRUE]
  /\ selectedSVGIndex' = NoIndex
  /\ UNCHANGED <<currentCode, currentFormat, form, convertBtn, conversions, exported,
                 PopupOthers>>

\* the user checks a format radio: the change listener
ChangeFormat ==
  /\ \E f \in Formats :
       /\ f # form.format
       /\ form' = [form EXCEPT !.format = f]
       /\ currentFormat' = f
  /\ UNCHANGED <<selectedSVGIndex, currentCode, panel, convertBtn, conversions, exported,
                 PopupOthers>>

\* a click on the Convert button: convertSVG() up to await getCurrentTab();
\* a disabled button receives no click
ClickConvert ==
  /\ ~convertBtn.disabled
  /\ Len(conversions) < MaxConversions
  /\ selectedSVGIndex # NoIndex
  /\ conversions' = Append(conversions, [at |-> "tab", request |-> NoRequest,
                                         outcome |-> ""])
  /\ UNCHANGED <<selectedSVGIndex, currentCode, currentFormat, form, panel, convertBtn,
                 exported, PopupOthers>>

\* getCurrentTab() resolves.  Without a tab id convertSVG returns; else the
\* form is read, the button is disabled and the request is sent with the
\* index selected now
TabResolves ==
  /\ \E k \in 1..Len(conversions), hasId \in BOOLEAN :
       /\ conversions[k].at = "tab"
       /\ IF hasId
          THEN /\ conversions' = [conversions EXCEPT
                                   ![k] = [at |-> "sent",
                                           request |-> RequestOf(selectedSVGIndex, form),
                                           outcome |-> ""]]
               /\ convertBtn' = [text |-> "Converting...", disabled |-> TRUE]
          ELSE /\ conversions' = [conversions EXCEPT ![k].at = "done",
                                                     ![k].outcome = "no tab"]
               /\ UNCHANGED convertBtn
  /\ UNCHANGED <<selectedSVGIndex, currentCode, currentFormat, form, panel, exported,
                 PopupOthers>>

\* sendMessageToTab settles: the response is handled and the finally clause
\* restores the button
RequestSettles ==
  /\ \E k \in 1..Len(conversions) :
       /\ conversions[k].at = "sent"
       /\ \E outcome \in Outcomes(conversions[k].request) :
            /\ conversions' = [conversions EXCEPT
                                 ![k] = [at |-> "done", request |-> NoRequest,
                                         outcome |-> outcome]]
            /\ convertBtn' = ButtonAfter(outcome)
            /\ IF outcome = "SVG_CONVERTED"
               THEN /\ currentCode' = CodeFor(conversions[k].request)
                    /\ currentFormat' = conversions[k].request.format
                    \* displayResult(response.data.code)
                    /\ panel' = [panel EXCEPT
                                   !.codeOutput = CodeFor(conversions[k].request),
                                   !.resultHidden = FALSE]
               ELSE UNCHANGED <<currentCode, currentFormat, panel>>
  /\ UNCHANGED <<selectedSVGIndex, form, exported, PopupOthers>>

\* a click on the Download button: downloadFile()
Download ==
  /\ currentCode # NoCode
  /\ exported' = [to |-> "file",
                   filename |-> [name |-> ComponentNameOf(form.componentName),
                                 extension |-> currentFormat],
                   content |-> currentCode]
  /\ UNCHANGED <<selectedSVGIndex, currentCode, currentFormat, form, panel, convertBtn,
                 conversions, PopupOthers>>

\* a click on the Copy button: copyToClipboard()
Copy ==
  /\ currentCode # NoCode
  /\ exported' = [to |-> "clipboard", filename |-> NoName, content |-> currentCode]
  /\ UNCHANGED <<selectedSVGIndex, currentCode, currentFormat, form, panel, convertBtn,
                 conversions, PopupOthers>>

NextPopup ==
  \/ SelectSVG
  \/ ClosePanel
  \/ ChangeFormat
  \/ ClickConvert
  \/ TabResolves
  \/ RequestSettles
  \/ Download
  \/ Copy

\* chrome.tabs.query and chrome.tabs.sendMessage answer in the end
SpecPopup ==
  /\ InitPopup
  /\ [][NextPopup]_vars
  /\ WF_vars(TabResolves)
  /\ WF_vars(RequestSettles)

---------------------------------------------------------------------------
(* background.ts: the onMessage listener receives UPDATE_BADGE messages    *)

InitBadge ==
  /\ GeneratorIdle /\ FormatIdle /\ ContentIdle /\ HistoryIdle /\ HoverIdle
  /\ PopupIdle /\ BadgeIdle

\* an UPDATE_BADGE message with a count from a tab, or from a sender that
\* has no tab: updateBadge(sender.tab?.id, message.data.count)
ReceiveUpdateBadge ==
  /\ \E tabId \in Tabs \cup {NoTab}, count \in 0..MaxCount :
       /\ counted' = [counted EXCEPT ![tabId] = count]
       /\ IF tabId = NoTab
          THEN UNCHANGED badge
          ELSE badge' = [badge EXCEPT ![tabId] = [text |-> BadgeText(count),
                                                  color |-> BadgeColor(count)]]
  /\ UNCHANGED <<generatorVars, formatVars, contentVars, historyVars, hoverVars, popupVars>>

NextBadge == ReceiveUpdateBadge

SpecBadge == InitBadge /\ [][NextBadge]_vars

---------------------------------------------------------------------------
(* content.ts: TOGGLE_OVERLAY messages and the MutationObserver of         *)
(* observeDOMChanges                                                       *)

InitOverlay == InitContent

\* the TOGGLE_OVERLAY messages
ToggleMessages == {m \in OtherMessages : m.type = "TOGGLE_OVERLAY"}

\* what detectSVGs can find after the page has changed: nothing, one inline
\* element, the external sources, or everything
Pages ==
  {<<>>, SubSeq(PageElements, 1, 1), SubSeq(PageElements, 4, 6), PageElements}

\* the listener receives a TOGGLE_OVERLAY message
ReceiveToggle ==
  /\ cpc = "idle"
  /\ Len(requests) < MaxToggles
  /\ \E m \in ToggleMessages : Handle(m)

\* the MutationObserver reports added nodes.  When one of them is an svg, or
\* an img or object of an .svg source, detectSVGs() runs and, with the
\* overlay enabled, createOverlays(); other nodes change nothing.
DomChange ==
  /\ \E shouldUpdate \in BOOLEAN, found \in Pages :
       IF shouldUpdate
       THEN /\ svgElements' = found
            /\ IF isOverlayEnabled
               THEN /\ overlays' = createOverlays(Shown, found).overlays
                    /\ bodyOverlays' = createOverlays(Shown, found).body
               ELSE UNCHANGED <<overlays, bodyOverlays>>
       ELSE UNCHANGED <<svgElements, overlays, bodyOverlays>>
  /\ UNCHANGED <<message, cpc, locals, responses, trace, requests, isOverlayEnabled,
                 generatorVars, formatVars, otherScripts>>

NextOverlay ==
  \/ ReceiveToggle
  \/ DomChange

SpecOverlay == InitOverlay /\ [][NextOverlay]_vars
---------------------------------------------------------------------------
(* Reading the generated text back *)

Lines(s) == Split(s, <<"\n">>)

EndsWith(s, suf) ==
  Len(suf) <= Len(s) /\ SubSeq(s, Len(s) - Len(suf) + 1, Len(s)) = suf

\* the part of s between the first occurrence of open and the next occurrence
\* of close after it; Null when either is missing
Between(s, open, close) ==
  LET i == IndexOf(s, open, 1)
      j == IF i = 0 THEN 0 ELSE IndexOf(s, close, i + Len(open))
  IN  IF i = 0 \/ j = 0 THEN Null ELSE SubSeq(s, i + Len(open), j - 1)

\* the lines of s whose first non-blank text is `<tag` followed by a space,
\* `>` or `/`
TagLines(s, tag) ==
  LET IsTagLine(l) ==
        /\ StartsWith(Trim(l), <<"<">> \o tag)
        /\ Len(Trim(l)) > Len(tag) + 1
        /\ Trim(l)[Len(tag) + 2] \in {" ", ">", "/"}
  IN  SelectSeq(Lines(s), IsTagLine)

\* the flags that are set in the options
FlagSet(opts) ==
  {f \in Flags : opts.hasAddProps /\ \E i \in 1..Len(opts.addProps) :
                   opts.addProps[i] = <<f, TRUE>>}

Done == pc = "done"

\* the README example converted as TSX component MyIcon with all four props
ExampleCase ==
  /\ Done
  /\ svgElement = ExampleSvg
  /\ options.format = "tsx"
  /\ options.componentName = MyIcon
  /\ FlagSet(options) = Flags

---------------------------------------------------------------------------
(* C2 *)

\* the text of the interface block: from `interface ` to the first `}`
InterfaceBlock(text) ==
  \* `interface `
  Between(text, <<"i","n","t","e","r","f","a","c","e"," ">>, <<"}">>)

\* C2: converting the example svg (width, height, viewBox, fill="none", one
\* path child with d and fill="currentColor") as tsx component MyIcon with all
\* four props yields a text with an interface listing width?, height?,
\* className? and color?, a signature destructuring
\* `width = 24, height = 24, className, color = "currentColor"`, a root tag
\* whose width and height read {width} and {height}, and a path tag whose fill
\* reads {color}.
C2_RoundTripExample ==
  ExampleCase =>
    \* `interface MyIconProps {`
    /\ StartsWith(out.component, <<"i","n","t","e","r","f","a","c","e"," ","M","y","I","c",
          "o","n","P","r","o","p","s"," ","{">>)
    \* `width?:`  `height?:`  `className?:`  `color?:`
    /\ \A p \in {<<"w","i","d","t","h","?",":">>, <<"h","e","i","g","h","t","?",":">>,
          <<"c","l","a","s","s","N","a","m","e","?",":">>, <<"c","o","l","o","r","?",
          ":">>} :
         Contains(InterfaceBlock(out.component), p)
    /\ Contains(out.component,
         \* `function MyIcon({ width = 24, height = 24, className, color = "currentColor" }`
         <<"f","u","n","c","t","i","o","n"," ","M","y","I","c","o","n","(","{"," ","w","i",
               "d","t","h"," ","="," ","2","4",","," ","h","e","i","g","h","t"," ","="," ",
               "2","4",","," ","c","l","a","s","s","N","a","m","e",","," ","c","o","l","o",
               "r"," ","="," ","\"","c","u","r","r","e","n","t","C","o","l","o","r","\"",
               " ","}">>)
    /\ Len(TagLines(out.component, <<"s","v","g">>)) = 1
    \* ` width={width} `
    /\ Contains(TagLines(out.component, <<"s","v","g">>)[1], <<" ","w","i","d","t","h","=",
          "{","w","i","d","t","h","}"," ">>)
    \* ` height={height} `
    /\ Contains(TagLines(out.component, <<"s","v","g">>)[1], <<" ","h","e","i","g","h","t",
          "=","{","h","e","i","g","h","t","}"," ">>)
    /\ Len(TagLines(out.component, <<"p","a","t","h">>)) = 1
    \* ` fill={color} `
    /\ Contains(TagLines(out.component, <<"p","a","t","h">>)[1], <<" ","f","i","l","l","=",
          "{","c","o","l","o","r","}"," ">>)

\* the example has been converted with the flags given in another order
C2_Witness ==
  /\ ExampleCase
  /\ options.addProps[1][1] = "color"
  \* `<path d="M12 2L2 7L12 12L22 7L12 2Z" fill={color} />`
  /\ Contains(out.component, <<"<","p","a","t","h"," ","d","=","\"","M","1","2"," ","2","L",
        "2"," ","7","L","1","2"," ","1","2","L","2","2"," ","7","L","1","2"," ","2","Z",
        "\""," ","f","i","l","l","=","{","c","o","l","o","r","}"," ","/",">">>)

---------------------------------------------------------------------------
(* C3 *)

\* C3: for the README's input converted as TSX component MyIcon with width,
\* height, className and color props, the generated root svg tag keeps
\* fill="none" as a literal and carries className={className}, and only the
\* path's fill is rewritten to {color}.
C3_ReadmeExampleOutput ==
  ExampleCase =>
    /\ Len(TagLines(out.component, <<"s","v","g">>)) = 1
    \* ` fill="none"`
    /\ Contains(TagLines(out.component, <<"s","v","g">>)[1], <<" ","f","i","l","l","=","\"",
          "n","o","n","e","\"">>)
    \* ` className={className}`
    /\ Contains(TagLines(out.component, <<"s","v","g">>)[1], <<" ","c","l","a","s","s","N",
          "a","m","e","=","{","c","l","a","s","s","N","a","m","e","}">>)
    \* `fill={color}`
    /\ ~Contains(TagLines(out.component, <<"s","v","g">>)[1], <<"f","i","l","l","=","{","c",
          "o","l","o","r","}">>)
    /\ Len(TagLines(out.component, <<"p","a","t","h">>)) = 1
    \* ` fill={color}`
    /\ Contains(TagLines(out.component, <<"p","a","t","h">>)[1], <<" ","f","i","l","l","=",
          "{","c","o","l","o","r","}">>)

---------------------------------------------------------------------------
(* C4 *)

HasQuote(value) == \E i \in 1..Len(value) : value[i] = "\""

RECURSIVE ClosingQuote(_, _)
\* the position of the first double quote of s at or after from that no
\* backslash escapes; 0 when there is none
ClosingQuote(s, from) ==
  IF from > Len(s) THEN 0
  ELSE IF s[from] = "\\" THEN ClosingQuote(s, from + 2)
  ELSE IF s[from] = "\"" THEN from
  ELSE ClosingQuote(s, from + 1)

RECURSIVE Unescape(_)
\* raw with every \" read as "
Unescape(raw) ==
  IF raw = <<>> THEN <<>>
  ELSE IF Len(raw) >= 2 /\ raw[1] = "\\" /\ raw[2] = "\""
       THEN <<"\"">> \o Unescape(SubSeq(raw, 3, Len(raw)))
  ELSE <<Head(raw)>> \o Unescape(Tail(raw))

\* the number of leading characters of s that can belong to an attribute name
NameLen(s) ==
  LET stops == {i \in 1..Len(s) : s[i] \in {" ", "=", "\"", ">", "/", "{", "}", "\n"}}
  IN  IF stops = {} THEN Len(s) ELSE (CHOOSE i \in stops : \A j \in stops : i <= j) - 1

ScanFailed == [ok |-> FALSE, tokens |-> <<>>]

RECURSIVE ScanAttrs(_)
\* Reads s, the rest of a tag after its name, as a list of attribute tokens
\* each preceded by one space (name, name="text" with \" for a quote inside,
\* or name={ref}) and ended by a closing ` />` or by the `>` of an open tag.
ScanAttrs(s) ==
  IF s = <<" ","/",">">> \/ StartsWith(s, <<">">>) THEN [ok |-> TRUE, tokens |-> <<>>]
  ELSE IF s = <<>> \/ Head(s) # " " \/ NameLen(Tail(s)) = 0 THEN ScanFailed
  ELSE
    LET n == NameLen(Tail(s))
        name == SubSeq(s, 2, n + 1)
        after == SubSeq(s, n + 2, Len(s))
        q == ClosingQuote(after, 3)
        b == IndexOf(after, <<"}">>, 3)
        Then(tok, rest) ==
          IF ScanAttrs(rest).ok
          THEN [ok |-> TRUE, tokens |-> <<tok>> \o ScanAttrs(rest).tokens]
          ELSE ScanFailed
    IN  IF StartsWith(after, <<"=","\"">>)
        THEN IF q = 0 THEN ScanFailed
             ELSE Then([name |-> name, kind |-> "text", raw |-> SubSeq(after, 3, q - 1)],
                       SubSeq(after, q + 1, Len(after)))
        ELSE IF StartsWith(after, <<"=","{">>)
        THEN IF b = 0 THEN ScanFailed
             ELSE Then([name |-> name, kind |-> "ref", raw |-> SubSeq(after, 2, b)],
                       SubSeq(after, b + 1, Len(after)))
        ELSE Then([name |-> name, kind |-> "bare", raw |-> <<>>], after)

\* the attributes of the element that are not namespace declarations
KeptAttrs(element) ==
  LET Kept(a) == a.name # xmlns /\ a.name # xmlns_svg
  IN  SelectSeq(element.attributes, Kept)

\* the root's tag in the returned body, after `<name`
RootTagRest ==
  LET line == Lines(out.jsxContent)[1]
      start == <<" "," ","<">> \o ToLowerCase(svgElement.tagName)
  IN  IF StartsWith(line, start) THEN SubSeq(line, Len(start) + 1, Len(line)) ELSE Null

RootHasQuotedValue ==
  \E i \in 1..Len(KeptAttrs(svgElement)) : HasQuote(KeptAttrs(svgElement)[i].value)

\* C4: for every attribute value containing one or more double quotes, and
\* for every addProps setting, the returned text contains that attribute as one
\* well-formed name="value" or name={ref} token: every double quote of the
\* value is escaped and no fragment of the value falls outside the
\* attribute's delimiters.  Stated of the root element's tag.
C4_Escaping ==
  (Done /\ RootHasQuotedValue) =>
    /\ RootTagRest # Null
    /\ ScanAttrs(RootTagRest).ok
    /\ Len(ScanAttrs(RootTagRest).tokens) = Len(KeptAttrs(svgElement))
    /\ \A i \in 1..Len(KeptAttrs(svgElement)) :
         LET attr == KeptAttrs(svgElement)[i]
             tok == ScanAttrs(RootTagRest).tokens[i]
         IN  HasQuote(attr.value) =>
               /\ tok.name = TranslateName(attr.name)
               /\ \/ tok.kind = "text" /\ Unescape(tok.raw) = attr.value
                  \/ tok.kind = "ref"

\* C4 holds where the templating pass does not touch the attribute: with no
\* prop flag set the quoted values are emitted escaped
C4_HoldsWithoutProps ==
  (Done /\ RootHasQuotedValue /\ FlagSet(options) = {}) =>
    /\ RootTagRest # Null
    /\ ScanAttrs(RootTagRest).ok
    /\ Len(ScanAttrs(RootTagRest).tokens) = Len(KeptAttrs(svgElement))
    /\ \A i \in 1..Len(KeptAttrs(svgElement)) :
         HasQuote(KeptAttrs(svgElement)[i].value) =>
           /\ ScanAttrs(RootTagRest).tokens[i].kind = "text"
           /\ Unescape(ScanAttrs(RootTagRest).tokens[i].raw)
                = KeptAttrs(svgElement)[i].value

---------------------------------------------------------------------------
(* C5 - C9: the props of the generated component *)

\* the prop name of each flag, as text
FlagText(f) ==
  CASE f = "width" -> <<"w","i","d","t","h">>
    \* `height`
    [] f = "height" -> <<"h","e","i","g","h","t">>
    \* `className`
    [] f = "className" -> <<"c","l","a","s","s","N","a","m","e">>
    [] f = "color" -> <<"c","o","l","o","r">>

\* the requested flags in the order width, height, className, color
RequestedInOrder(opts) ==
  LET Requested(f) == f \in FlagSet(opts)
  IN  SelectSeq(FlagOrder, Requested)

\* the text between the parentheses of the function declaration
ParamText(text, componentName) ==
  \* `export function `
  Between(text, <<"e","x","p","o","r","t"," ","f","u","n","c","t","i","o","n",
        " ">> \o componentName \o <<"(">>,
          \* `) {\n  return (\n`
          <<")"," ","{","\n"," "," ","r","e","t","u","r","n"," ","(","\n">>)

\* the items of the destructuring pattern `{ a, b = 1 }...` in params
ParamItems(params) ==
  IF Between(params, <<"{"," ">>, <<" ","}">>) = Null THEN <<>>
  ELSE Split(Between(params, <<"{"," ">>, <<" ","}">>), <<","," ">>)

\* the name an item or an interface line declares: the text before ` = `, `?:`
NameOf(item) ==
  LET cut == {i \in 1..Len(item) : item[i] \in {" ", "?", ":", "="}}
  IN  IF cut = {} THEN item
      ELSE SubSeq(item, 1, (CHOOSE i \in cut : \A j \in cut : i <= j) - 1)

\* the member lines of the interface block at the head of text
InterfaceMembers(text, componentName) ==
  \* `interface `  `Props {\n`
  LET body == Between(text, <<"i","n","t","e","r","f","a","c","e",
        " ">> \o componentName \o <<"P","r","o","p","s"," ","{","\n">>,
                      <<"\n","}","\n","\n">>)
  IN  IF body = Null THEN <<>>
      ELSE [i \in 1..Len(Lines(body)) |-> Trim(Lines(body)[i])]

NamesOf(items) == [i \in 1..Len(items) |-> NameOf(items[i])]

\* C5: for every subset of the flags, in whatever order addProps gives them,
\* the props of the interface block and of the destructuring parameter are
\* listed in the order width, height, className, color restricted to the
\* requested flags.
C5_PropPrecedence ==
  Done =>
    LET expected == [i \in 1..Len(RequestedInOrder(options)) |->
                       FlagText(RequestedInOrder(options)[i])]
    IN  /\ NamesOf(ParamItems(ParamText(out.component, options.componentName)))
             = expected
        /\ options.format = "tsx" =>
             NamesOf(InterfaceMembers(out.component, options.componentName))
               = expected

\* color was given before width, and width is listed before color
C5_Witness ==
  /\ Done
  /\ options.format = "tsx"
  /\ options.addProps = << <<"color", TRUE>>, <<"width", TRUE>> >>
  /\ NamesOf(InterfaceMembers(out.component, options.componentName))
       = <<<<"w","i","d","t","h">>, <<"c","o","l","o","r">>>>
  /\ NamesOf(ParamItems(ParamText(out.component, options.componentName)))
       = <<<<"w","i","d","t","h">>, <<"c","o","l","o","r">>>>

\* the usage map as a set of (attribute, reference) pairs
UsageEntries(usage) == {usage[i] : i \in 1..Len(usage)}

\* C6: the usage map returned by generatePropTypes has exactly the entries
\* width -> {width} iff width is set, height -> {height} iff height is set,
\* className -> {className} iff className is set, and both fill -> {color} and
\* stroke -> {color} iff color is set, each key once.
C6_UsageMapShape ==
  Done =>
    /\ UsageEntries(out.propsUsage)
         = {<<FlagText(f), <<"{">> \o FlagText(f) \o <<"}">> >> :
              f \in FlagSet(options) \ {"color"}}
           \* `{color}`
           \cup {<<a, <<"{","c","o","l","o","r","}">>>> :
                   a \in IF "color" \in FlagSet(options)
                         \* `stroke`
                         THEN {<<"f","i","l","l">>, <<"s","t","r","o","k","e">>} ELSE {}}
    /\ Len(out.propsUsage) = Cardinality(UsageEntries(out.propsUsage))

\* only color is set and the map has the two entries fill and stroke
C6_Witness ==
  /\ Done
  /\ FlagSet(options) = {"color"}
  /\ Len(out.propsUsage) = 2
  /\ out.propsUsage[1][2] = out.propsUsage[2][2]

\* C7: when addProps is absent or every flag is false or absent, for either
\* format, generatePropTypes returns empty interface text, empty destructuring
\* text and an empty usage map, the function declaration has the empty
\* parameter list `()`, and the serialized body is emitted without rewrite.
C7_NoPropsPath ==
  (Done /\ FlagSet(options) = {}) =>
    /\ out.propsInterface = <<>>
    /\ out.propsDestructure = <<>>
    /\ out.propsUsage = <<>>
    /\ out.jsxContent = out.serialized
    /\ out.component
         \* `export function `  `() {\n  return (\n`
         = <<"e","x","p","o","r","t"," ","f","u","n","c","t","i","o","n",
               " ">> \o options.componentName \o <<"(",")"," ","{","\n"," "," ","r","e","t",
               "u","r","n"," ","(","\n">>
             \* `\n  );\n}`
             \o out.serialized \o <<"\n"," "," ",")",";","\n","}">>

\* all four flags are listed and false, in the untyped format, for a tree
\* whose attributes the templating pass would rewrite
C7_Witness ==
  /\ Done
  /\ options.format = "jsx"
  /\ options.hasAddProps /\ Len(options.addProps) = 4
  /\ FlagSet(options) = {}
  \* `MyIcon() {`
  /\ Contains(out.component, <<"M","y","I","c","o","n","(",")"," ","{">>)
  \* `fill="none"`
  /\ Contains(out.component, <<"f","i","l","l","=","\"","n","o","n","e","\"">>)

\* C8: the output starts with an `interface <componentName>Props {` block iff
\* the format is tsx and at least one flag is set; otherwise it starts with
\* `export function <componentName>(`.
C8_InterfaceBlock ==
  Done =>
    LET typed == options.format = "tsx" /\ FlagSet(options) # {}
    IN  /\ StartsWith(out.component,
                      \* `interface `  `Props {`
                      <<"i","n","t","e","r","f","a","c","e",
                            " ">> \o options.componentName \o <<"P","r","o","p","s"," ",
                            "{">>)
             <=> typed
        /\ ~typed =>
             StartsWith(out.component,
                        \* `export function `
                        <<"e","x","p","o","r","t"," ","f","u","n","c","t","i","o","n",
                              " ">> \o options.componentName \o <<"(">>)

\* props are requested in the untyped format and no interface is emitted
C8_Witness ==
  /\ Done
  /\ options.format = "jsx"
  /\ FlagSet(options) = {"width", "color"}
  \* `export function MyIcon({ width = 24`
  /\ StartsWith(out.component, <<"e","x","p","o","r","t"," ","f","u","n","c","t","i","o",
        "n"," ","M","y","I","c","o","n","(","{"," ","w","i","d","t","h"," ","="," ","2",
        "4">>)

\* the destructuring item of each flag, default included
ExpectedItem(f) ==
  \* `width = 24`
  CASE f = "width" -> <<"w","i","d","t","h"," ","="," ","2","4">>
    \* `height = 24`
    [] f = "height" -> <<"h","e","i","g","h","t"," ","="," ","2","4">>
    \* `className`
    [] f = "className" -> <<"c","l","a","s","s","N","a","m","e">>
    \* `color = "currentColor"`
    [] f = "color" -> <<"c","o","l","o","r"," ","="," ","\"","c","u","r","r","e","n","t",
          "C","o","l","o","r","\"">>

\* C9: when at least one flag is set the function parameter is a destructuring
\* pattern listing each requested prop exactly once, with ` = 24` for width
\* and height, ` = "currentColor"` for color and no default for className,
\* followed by `: <componentName>Props` iff the format is tsx; when no flag
\* is set the function has no parameters.
C9_ParameterShape ==
  Done =>
    LET params == ParamText(out.component, options.componentName)
        items == ParamItems(params)
        annotation == IF options.format = "tsx"
                      THEN <<":"," ">> \o options.componentName \o <<"P","r","o","p",
                            "s">> ELSE <<>>
    IN  IF FlagSet(options) = {} THEN params = <<>>
        ELSE /\ params = <<"{"," ">> \o Join(items, <<","," ">>) \o <<" ",
              "}">> \o annotation
             /\ Len(items) = Cardinality(FlagSet(options))
             /\ \A f \in FlagSet(options) :
                  Cardinality({i \in 1..Len(items) : items[i] = ExpectedItem(f)}) = 1

\* className and color are requested in the untyped format
C9_Witness ==
  /\ Done
  /\ options.format = "jsx"
  /\ FlagSet(options) = {"className", "color"}
  /\ ParamText(out.component, options.componentName)
       \* `{ className, color = "currentColor" }`
       = <<"{"," ","c","l","a","s","s","N","a","m","e",","," ","c","o","l","o","r"," ","=",
             " ","\"","c","u","r","r","e","n","t","C","o","l","o","r","\""," ","}">>

---------------------------------------------------------------------------
(* C10 *)

\* text content that is absent, empty or whitespace only
BlankText(text) == text = Null \/ \A i \in 1..Len(text) : text[i] \in WhiteSpace

\* a childless element without text
EmptyElement(element) ==
  Len(element.children) = 0 /\ BlankText(element.textContent)

\* `<indent><tag attrs />` for the element at that indent
SelfClosingForm(element, indent) ==
  Repeat(<<" "," ">>, indent) \o <<"<">> \o ToLowerCase(element.tagName)
    \o (IF convertAttributes(element) = <<>> THEN <<>>
        ELSE <<" ">> \o convertAttributes(element))
    \o <<" ","/",">">>

\* some attribute value of the element holds a line break
HasLineBreakInValue(element) ==
  \E i \in 1..Len(element.attributes) :
    \E k \in 1..Len(element.attributes[i].value) :
      element.attributes[i].value[k] = "\n"

\* C10 as claimed: every element, at any depth, that has no child elements and
\* whose text content is absent, empty or whitespace-only serializes to
\* exactly one line of the form `<indent><tag attrs />`, with no separate
\* closing tag.
C10_SelfClosingOneLine ==
  Done =>
    \A c \in out.calls :
      EmptyElement(c.element) =>
        /\ c.result = SelfClosingForm(c.element, c.indent)
        /\ Len(Lines(c.result)) = 1

\* C10, amended: every element, at any depth, that has no child elements and
\* whose text content is absent, empty or whitespace-only serializes to
\* exactly `<indent><tag attrs />`, with no separate closing tag, placed on
\* lines of its own in the serialized tree; it is exactly one line when no
\* attribute value of the element holds a line break.
C10_SelfClosing ==
  Done =>
    \A c \in out.calls :
      EmptyElement(c.element) =>
        /\ c.result = SelfClosingForm(c.element, c.indent)
        /\ Contains(<<"\n">> \o out.serialized \o <<"\n">>,
                    <<"\n">> \o c.result \o <<"\n">>)
        /\ ~HasLineBreakInValue(c.element) => Len(Lines(c.result)) = 1

\* a leaf with whitespace-only text and attributes, three levels deep
C10_Witness ==
  /\ Done
  /\ \E c \in out.calls :
       /\ c.indent = 3
       /\ Len(c.element.children) = 0
       /\ c.element.textContent = <<"\n","\t"," ">>
       \* `feBlend`
       /\ c.element.tagName = <<"f","e","B","l","e","n","d">>
       \* `      <feblend width="24" className="icon" />`
       /\ c.result = <<" "," "," "," "," "," ","<","f","e","b","l","e","n","d"," ","w","i",
             "d","t","h","=","\"","2","4","\""," ","c","l","a","s","s","N","a","m","e","=",
             "\"","i","c","o","n","\""," ","/",">">>

---------------------------------------------------------------------------
(* C11, C12: attribute names *)

\* the rest of the tag that a serializer call returned, after `<indent><name`
TagRest(c) ==
  LET start == Repeat(<<" "," ">>, c.indent) \o <<"<">> \o ToLowerCase(c.element.tagName)
  IN  IF StartsWith(c.result, start)
      THEN SubSeq(c.result, Len(start) + 1, Len(c.result)) ELSE Null

\* the names of the attribute tokens of that tag; Null when it does not read
\* as a list of attribute tokens
TagAttrNames(c) ==
  IF TagRest(c) = Null \/ ~ScanAttrs(TagRest(c)).ok THEN Null
  ELSE [i \in 1..Len(ScanAttrs(TagRest(c)).tokens) |->
          ScanAttrs(TagRest(c)).tokens[i].name]

\* the name the translation table gives: the mapped name of a key, the name
\* itself otherwise
TableName(name) ==
  IF name \in TableKeys
  THEN attributeMap[CHOOSE k \in 1..Len(attributeMap) : attributeMap[k][1] = name][2]
  ELSE name

\* C11: for every key of the translation table, an attribute with that name is
\* emitted under the mapped name and never under its original name; every
\* attribute name that is not a key of the table (and is not a stripped
\* namespace name) is emitted unchanged.
C11_TranslationCompleteness ==
  Done =>
    \A c \in out.calls :
      TagAttrNames(c)
        = [i \in 1..Len(KeptAttrs(c.element)) |-> TableName(KeptAttrs(c.element)[i].name)]

\* C11 holds of every element none of whose attribute names is a member that
\* the table object inherits
C11_HoldsOffInheritedNames ==
  Done =>
    \A c \in out.calls :
      (\A i \in 1..Len(c.element.attributes) :
         c.element.attributes[i].name \notin InheritedNames) =>
        TagAttrNames(c)
          = [i \in 1..Len(KeptAttrs(c.element)) |->
               TableName(KeptAttrs(c.element)[i].name)]

\* C12: for every element at any depth and every value, an attribute named
\* `xmlns` or `xmlns:svg` produces no attribute in the output, and the
\* remaining attributes of that element are still emitted.
C12_NamespaceStripping ==
  Done =>
    \A c \in out.calls :
      \* `xmlns:svg`
      LET Other(a) == a.name \notin {<<"x","m","l","n","s">>, <<"x","m","l","n","s",":","s",
            "v","g">>}
          others == SelectSeq(c.element.attributes, Other)
      IN  (\E i \in 1..Len(c.element.attributes) : ~Other(c.element.attributes[i])) =>
            /\ TagAttrNames(c) # Null
            /\ Len(TagAttrNames(c)) = Len(others)
            /\ \A i \in 1..Len(others) :
                 TagAttrNames(c)[i] = TranslateName(others[i].name)
            /\ \A i \in 1..Len(TagAttrNames(c)) :
                 \* `xmlns:svg`
                 TagAttrNames(c)[i] \notin {<<"x","m","l","n","s">>, <<"x","m","l","n","s",
                       ":","s","v","g">>}
            \* ` xmlns`
            /\ ~Contains(c.result, <<" ","x","m","l","n","s">>)
            \* ` xmlns`
            /\ ~Contains(out.component, <<" ","x","m","l","n","s">>)

\* a leaf three levels deep declares xmlns:svg with a quoted value after a
\* width attribute, and only the width attribute is emitted
C12_Witness ==
  /\ Done
  /\ \E c \in out.calls :
       /\ c.indent = 3
       /\ c.element.attributes
            \* `xmlns:svg`
            = <<Attr(<<"w","i","d","t","h">>, <<"2","4">>), Attr(<<"x","m","l","n","s",":",
                  "s","v","g">>, <<"a","\"","b">>)>>
       \* `      <path width="24" />`
       /\ c.result = <<" "," "," "," "," "," ","<","p","a","t","h"," ","w","i","d","t","h",
             "=","\"","2","4","\""," ","/",">">>

---------------------------------------------------------------------------
(* C13: formatCode *)

\* C13: for every text t, formatCode(formatCode(t)) = formatCode(t), the empty
\* text, texts with leading blank lines and texts with an indented first line
\* included.
C13_FormatIdempotent ==
  Len(formatted) >= 2 => formatted[2] = formatted[1]

\* formatCode has been applied twice, starting from a text whose first line is
\* blank and whose second line is indented and has trailing white space
C13_Witness ==
  /\ code = <<"\n", " ", "x", "\t">>
  /\ Len(formatted) >= 2
  /\ formatted[2] = <<"x", "\n">>

\* formatCode has been applied twice to the empty text
C13_WitnessEmpty ==
  code = <<>> /\ Len(formatted) >= 2 /\ formatted[2] = <<"\n">>

---------------------------------------------------------------------------
(* C14: totality *)

\* s is a text: a sequence of one-character strings, not `Null`
IsText(s) == s # Null /\ s # TypeError

\* C14: convertSVGToComponent returns a text and signals no error for every
\* well-formed element tree and every options value, including an empty
\* componentName, an absent addProps, and an element with no attributes or no
\* children.
C14_Totality ==
  Done =>
    /\ out.thrown = {}
    /\ IsText(out.component)
    /\ IsText(out.serialized)
    /\ Len(out.component) > Len(out.serialized)

\* the generator has returned for an element without attributes, children and
\* text, an empty component name and no addProps member
C14_Witness ==
  /\ Done
  /\ svgElement = Element(<<"s","v","g">>, <<>>, <<>>, Null)
  /\ options.componentName = <<>>
  /\ ~options.hasAddProps
  \* `export function () {\n  return (\n  <svg />\n  );\n}`
  /\ out.component = <<"e","x","p","o","r","t"," ","f","u","n","c","t","i","o","n"," ","(",
        ")"," ","{","\n"," "," ","r","e","t","u","r","n"," ","(","\n"," "," ","<","s","v",
        "g"," ","/",">","\n"," "," ",")",";","\n","}">>

---------------------------------------------------------------------------
(* C15, C16, C17: failures of the optimizer, the parser and the network *)

\* the response to the message handled last
LastResponse == responses[Len(responses)]

\* handleMessage has answered the current message
Answered == cpc = "idle" /\ message # NoMessage /\ responses # <<>>

\* C15: when the external optimizer fails on a text, optimizeSVG completes
\* normally and returns the original unoptimized text unchanged, so the
\* orchestration (optimize, then parse, then convert) continues with the
\* unoptimized text instead of failing.
C15_OptimizerFallback ==
  LET n == Len(trace.optimizations)
  IN  /\ \A i \in 1..n :
           /\ trace.optimizations[i].threw =>
                trace.optimizations[i].returned = trace.optimizations[i].input
           /\ i <= Len(trace.parses)
           /\ trace.parses[i].input = trace.optimizations[i].returned
      /\ (n > 0 /\ trace.optimizations[n].threw /\ trace.optimizations[n].input.found) =>
           \* the parser found the root of the unoptimized text, and either the
           \* next optimization is awaited or the generator was given that root
           /\ ~trace.parses[n].threw
           /\ \/ cpc = "optimize" /\ locals.svgElement.tree = trace.optimizations[n].input.svg
              \/ /\ Answered
                 /\ trace.generated = 1
                 /\ svgElement = trace.optimizations[n].input.svg
                 /\ LastResponse.type = "SVG_CONVERTED"
                 /\ LastResponse.data.code = out.component

\* the optimizer failed on the markup of the second inline element, and the
\* message was answered with the component of the unoptimized element, its
\* empty attribute included
C15_Witness ==
  /\ Answered
  /\ message.type = "CONVERT_SVG"
  /\ message.data.index = 1 /\ message.data.optimize
  /\ trace.optimizations = <<[input |-> getSVGContent(PageElements[2]), threw |-> TRUE,
                              returned |-> getSVGContent(PageElements[2])]>>
  /\ LastResponse.type = "SVG_CONVERTED"
  \* `<svg hidden fill="red" />`
  /\ Contains(LastResponse.data.code, <<"<","s","v","g"," ","h","i","d","d","e","n"," ","f",
        "i","l","l","=","\"","r","e","d","\""," ","/",">">>)

\* C16: when the parsed text has no svg root element, parseSVGString signals
\* an error, the generator is not invoked for that attempt, and the
\* CONVERT_SVG request is answered with an ERROR message and never with
\* SVG_CONVERTED.
C16_ParseFailureTerminal ==
  \A i \in 1..Len(trace.parses) :
    /\ trace.parses[i].threw = ~trace.parses[i].input.found
    /\ trace.parses[i].threw =>
         /\ i = Len(trace.parses)
         /\ trace.generated = 0
         /\ Answered
         /\ LastResponse.type = "ERROR"

\* the markup of the third inline element has no svg root for the parser, and
\* the message was answered with the parser's error
C16_Witness ==
  /\ Answered
  /\ message.type = "CONVERT_SVG"
  /\ message.data.index = 2
  /\ Len(trace.parses) = 1 /\ trace.parses[1].threw
  /\ trace.generated = 0
  \* `Invalid SVG string`
  /\ LastResponse = ErrorResponse(<<"I","n","v","a","l","i","d"," ","S","V","G"," ","s","t",
        "r","i","n","g">>)

\* C17: when fetching an external SVG from a URL fails, fetchAndOptimizeSVG
\* signals an error whose message contains that URL, no element is returned,
\* and no second fetch of the URL is attempted.
C17_FetchFailure ==
  \A i \in 1..Len(trace.fetches) :
    trace.fetches[i].settled = "rejected" =>
      /\ Len(trace.fetches) = 1
      /\ Answered
      /\ LastResponse.type = "ERROR"
      /\ Contains(LastResponse.data.message, trace.fetches[i].url)
      /\ trace.parses = <<>>
      /\ trace.generated = 0

\* the fetch of the object's data URL was rejected, and the message was
\* answered with the error that names it
C17_Witness ==
  /\ Answered
  /\ message.type = "CONVERT_SVG"
  /\ message.data.index = 5
  /\ trace.fetches = <<[url |-> <<"b",".","s","v","g">>, settled |-> "rejected"]>>
  \* `Failed to fetch SVG from b.svg`
  /\ LastResponse = ErrorResponse(<<"F","a","i","l","e","d"," ","t","o"," ","f","e","t","c",
        "h"," ","S","V","G"," ","f","r","o","m"," ","b",".","s","v","g">>)

---------------------------------------------------------------------------
(* C18: the arguments after the call *)

\* C18: after convertSVGToComponent returns, the element tree (tag names,
\* attribute names, values and order, children, text) and the options value
\* are equal to what they were before the call.
C18_InputNotMutated ==
  [][(pc = "ready" /\ pc' = "done") =>
       (svgElement' = svgElement /\ options' = options)]_vars

\* the generator has returned a text in which an attribute name is translated
\* and a quote is escaped, and the element still has the name and the value
\* it was given
C18_Witness ==
  /\ Done
  /\ svgElement.attributes = <<Attr(<<"c","l","a","s","s">>, <<"i","c","o","n">>),
        Attr(<<"i","d">>, <<"\"","x","\""," ","y">>)>>
  \* `className="icon" id="\\"x\\" y"`
  /\ Contains(out.serialized, <<"c","l","a","s","s","N","a","m","e","=","\"","i","c","o",
        "n","\""," ","i","d","=","\"","\\","\"","x","\\","\""," ","y","\"">>)
  /\ options.hasAddProps

---------------------------------------------------------------------------
(* C19, C20: the templating pass, read tag by tag *)

\* the parts of a body that start a tag: what follows each `<` that does not
\* open a closing tag
TagChunks(text) ==
  LET Opens(part) == part # <<>> /\ Head(part) # "/"
  IN  SelectSeq(Tail(Split(text, <<"<">>)), Opens)

\* the parts of a body that follow the `<` of a closing tag
ClosingChunks(text) ==
  LET Closes(part) == part # <<>> /\ Head(part) = "/"
  IN  SelectSeq(Tail(Split(text, <<"<">>)), Closes)

ChunkName(chunk) == SubSeq(chunk, 1, NameLen(chunk))

\* the attribute tokens of a chunk
ChunkAttrs(chunk) == ScanAttrs(TrimEnd(SubSeq(chunk, NameLen(chunk) + 1, Len(chunk))))

UsageKeys == {out.propsUsage[k][1] : k \in 1..Len(out.propsUsage)}

UsageRef(name) ==
  out.propsUsage[CHOOSE k \in 1..Len(out.propsUsage) : out.propsUsage[k][1] = name][2]

\* C19: when a flag is set, every attribute that the serializer rendered in
\* name="value" form and whose translated name is a usage-map key, on every
\* element at any depth, reads exactly name={ref} in the final output, with
\* the whole original value removed and no occurrence left literal.
C19_UniformParameterization ==
  (Done /\ out.propsUsage # <<>>) =>
    LET before == TagChunks(out.serialized)
        after == TagChunks(out.jsxContent)
    IN  /\ Len(after) = Len(before)
        /\ \A i \in 1..Len(before) :
             ChunkAttrs(before[i]).ok =>
               \A k \in 1..Len(ChunkAttrs(before[i]).tokens) :
                 LET tok == ChunkAttrs(before[i]).tokens[k]
                 IN  (tok.kind = "text" /\ tok.name \in UsageKeys) =>
                       /\ ChunkAttrs(after[i]).ok
                       /\ Len(ChunkAttrs(after[i]).tokens) = Len(ChunkAttrs(before[i]).tokens)
                       /\ ChunkAttrs(after[i]).tokens[k]
                            = [name |-> tok.name, kind |-> "ref", raw |-> UsageRef(tok.name)]

\* no attribute value of the tree holds a double quote or an equals sign
PlainValues(element) ==
  \A c \in Calls(element, 1) :
    \A i \in 1..Len(c.element.attributes) :
      \A j \in 1..Len(c.element.attributes[i].value) :
        c.element.attributes[i].value[j] \notin {"\"", "="}

\* C19 holds of every tree whose attribute values hold no double quote and no
\* equals sign
C19_HoldsOnPlainValues ==
  PlainValues(svgElement) => C19_UniformParameterization

\* C20: applyPropsToSVG changes only attributes whose translated name is
\* exactly a key of the usage map; every attribute with any other name
\* (including names that merely end in a key, such as data-width, markerWidth
\* or data-fill), every tag name and every text content is the same in the
\* templated text as in the serialized text.
C20_TemplatingFrame ==
  (Done /\ out.propsUsage # <<>>) =>
    LET before == TagChunks(out.serialized)
        after == TagChunks(out.jsxContent)
    IN  /\ Len(after) = Len(before)
        /\ ClosingChunks(out.jsxContent) = ClosingChunks(out.serialized)
        /\ \A i \in 1..Len(before) :
             /\ ChunkName(after[i]) = ChunkName(before[i])
             /\ ChunkAttrs(before[i]).ok =>
                  /\ ChunkAttrs(after[i]).ok
                  /\ Len(ChunkAttrs(after[i]).tokens) = Len(ChunkAttrs(before[i]).tokens)
                  /\ \A k \in 1..Len(ChunkAttrs(before[i]).tokens) :
                       ChunkAttrs(before[i]).tokens[k].name \notin UsageKeys =>
                         ChunkAttrs(after[i]).tokens[k] = ChunkAttrs(before[i]).tokens[k]
        /\ \A c \in out.calls :
             (Len(c.element.children) = 0 /\ Truthy(TrimmedText(c.element))) =>
               Contains(out.jsxContent,
                        <<">">> \o TrimmedText(c.element) \o <<"<","/">>
                          \o ToLowerCase(c.element.tagName) \o <<">">>)

\* no attribute name of the tree ends in a key of the usage map without being
\* that key
NoNameEndsInKey(element) ==
  \A c \in Calls(element, 1) :
    \A i \in 1..Len(c.element.attributes) :
      \A key \in UsageKeys :
        LET name == TranslateName(c.element.attributes[i].name)
        IN  EndsWith(name, key) => name = key

\* C20 holds of every tree whose attribute values hold no double quote and no
\* equals sign and whose attribute names do not end in a key
C20_HoldsOnExactNames ==
  (PlainValues(svgElement) /\ NoNameEndsInKey(svgElement)) => C20_TemplatingFrame

---------------------------------------------------------------------------
(* C21, C22, C25: the attributes of one tag *)

\* the attribute tokens of the tag that a serializer call returned
TagTokens(c) == ScanAttrs(TagRest(c)).tokens

\* the tag that the call returned reads as a list of attribute tokens
Readable(c) == TagRest(c) # Null /\ ScanAttrs(TagRest(c)).ok

\* no attribute of the element has a name that the table object inherits
OwnNames(element) ==
  \A i \in 1..Len(element.attributes) : element.attributes[i].name \notin InheritedNames

\* C21: when an element has two attributes whose names are equal after
\* translation (class and className, stroke-width and strokeWidth), the
\* element's emitted tag carries a single attribute of that name, holding the
\* value of the later attribute.
C21_DuplicateLastWins ==
  Done =>
    \A c \in out.calls :
      \A i, j \in 1..Len(KeptAttrs(c.element)) :
        LET first == KeptAttrs(c.element)[i]
            later == KeptAttrs(c.element)[j]
            same == {k \in 1..Len(TagTokens(c)) :
                       TagTokens(c)[k].name = TableName(later.name)}
        IN  (i < j /\ OwnNames(c.element) /\ TableName(first.name) = TableName(later.name)
               /\ ~(\E l \in (j + 1)..Len(KeptAttrs(c.element)) :
                      TableName(KeptAttrs(c.element)[l].name) = TableName(later.name))) =>
              /\ Readable(c)
              /\ Cardinality(same) = 1
              /\ \A k \in same :
                   /\ TagTokens(c)[k].kind = "text"
                   /\ Unescape(TagTokens(c)[k].raw) = later.value

\* the form the attribute takes under the name it is emitted with
AttrForm(attr) ==
  LET name == TranslateName(attr.name)
  IN  IF attr.value = <<>> \/ attr.value = name THEN name
      ELSE name \o <<"=","\"">> \o EscapeQuotes(attr.value) \o <<"\"">>

C25_AttributeOrder ==
  Done =>
    \A c \in out.calls :
      OwnNames(c.element) =>
        /\ Readable(c)
        /\ Len(TagTokens(c)) = Len(KeptAttrs(c.element))
        /\ \A i \in 1..Len(KeptAttrs(c.element)) :
             /\ TagTokens(c)[i].name = TableName(KeptAttrs(c.element)[i].name)
             /\ TagTokens(c)[i].kind = "text" =>
                  Unescape(TagTokens(c)[i].raw) = KeptAttrs(c.element)[i].value
             /\ TagTokens(c)[i].kind = "bare" =>
                  KeptAttrs(c.element)[i].value \in {<<>>, TagTokens(c)[i].name}

\* the root has a namespace declaration, then stroke-width, class and a
\* boolean id: the three that are kept are emitted in that order
C25_Witness ==
  /\ Done
  /\ Len(svgElement.attributes) = 4
  /\ svgElement.attributes[1].name = <<"x","m","l","n","s">>
  \* `  <svg strokeWidth="2" className="x" id />`
  /\ out.serialized = <<" "," ","<","s","v","g"," ","s","t","r","o","k","e","W","i","d","t",
        "h","=","\"","2","\""," ","c","l","a","s","s","N","a","m","e","=","\"","x","\""," ",
        "i","d"," ","/",">">>

---------------------------------------------------------------------------
(* C23, C24, C26: the shape of the serialized tree *)

\* the attributes of the element as they follow the tag name
AttrPart(element) ==
  IF convertAttributes(element) = <<>> THEN <<>> ELSE <<" ">> \o convertAttributes(element)

\* tag with every capital letter replaced by its small letter
Lowered(tag) ==
  [i \in 1..Len(tag) |->
     IF \E k \in 1..26 : UpperCase[k] = tag[i]
     THEN LowerCase[CHOOSE k \in 1..26 : UpperCase[k] = tag[i]]
     ELSE tag[i]]

OpenLine(element, indent) ==
  Repeat(<<" "," ">>, indent) \o <<"<">> \o Lowered(element.tagName) \o AttrPart(element)
    \o <<">">>

CloseLine(element, indent) ==
  Repeat(<<" "," ">>, indent) \o <<"<","/">> \o Lowered(element.tagName) \o <<">">>

\* what the serializer returned for the i-th child of the call's element
ChildResult(c, i) ==
  (CHOOSE d \in out.calls :
     d.element = c.element.children[i] /\ d.indent = c.indent + 1).result

TextOnly(element) ==
  Len(element.children) = 0 /\ ~BlankText(element.textContent)

\* `<indent><tag attrs>TEXT</tag>` with the trimmed text content
TextOnlyForm(element, indent) ==
  Repeat(<<" "," ">>, indent) \o <<"<">> \o Lowered(element.tagName) \o AttrPart(element)
    \o <<">">> \o Trim(element.textContent)
    \o <<"<","/">> \o Lowered(element.tagName) \o <<">">>

\* C24 as claimed: an element with no child elements and non-blank text
\* content serializes to exactly one line `<indent><tag attrs>TEXT</tag>`
\* where TEXT is the text content with leading and trailing whitespace
\* removed.
C24_TextOnlyOneLine ==
  Done =>
    \A c \in out.calls :
      TextOnly(c.element) =>
        /\ c.result = TextOnlyForm(c.element, c.indent)
        /\ Len(Lines(c.result)) = 1

\* the text content holds a line break between two characters that are not
\* white space
HasLineBreakInText(element) ==
  \E k \in 1..Len(Trim(element.textContent)) : Trim(element.textContent)[k] = "\n"

\* C24, amended: an element with no child elements and non-blank text content
\* serializes to exactly `<indent><tag attrs>TEXT</tag>` where TEXT is the
\* text content with leading and trailing whitespace removed; it is exactly
\* one line when neither the trimmed text nor an attribute value of the
\* element holds a line break.
C24_TextOnly ==
  Done =>
    \A c \in out.calls :
      TextOnly(c.element) =>
        /\ c.result = TextOnlyForm(c.element, c.indent)
        /\ (~HasLineBreakInText(c.element) /\ ~HasLineBreakInValue(c.element)) =>
             Len(Lines(c.result)) = 1

\* a leaf two levels deep has the text ` a b` and a line break after it, and
\* is written on one line around `a b`
C24_Witness ==
  /\ Done
  /\ \E c \in out.calls :
       /\ c.indent = 2
       /\ c.element.textContent = <<" ","a"," ","b","\n">>
       /\ c.element.attributes = <<>>
       \* `    <path>a b</path>`
       /\ c.result = <<" "," "," "," ","<","p","a","t","h",">","a"," ","b","<","/","p","a",
             "t","h",">">>

\* no letter of the text is a capital
NoCapitals(name) == \A i \in 1..Len(name) : \A k \in 1..26 : name[i] # UpperCase[k]

\* C26: every emitted open tag, close tag and self-closing tag uses the
\* lower-cased form of the element's tag name, and an element's open and close
\* tags carry the same name.
C26_TagNames ==
  Done =>
    /\ \A i \in 1..Len(TagChunks(out.serialized)) :
         NoCapitals(ChunkName(TagChunks(out.serialized)[i]))
    /\ \A i \in 1..Len(ClosingChunks(out.serialized)) :
         NoCapitals(ClosingChunks(out.serialized)[i])
    /\ \A c \in out.calls :
         LET open == Repeat(<<" "," ">>, c.indent) \o <<"<">> \o Lowered(c.element.tagName)
             close == <<"<","/">> \o Lowered(c.element.tagName) \o <<">">>
         IN  /\ \/ StartsWith(c.result, open \o <<" ">>)
                \/ StartsWith(c.result, open \o <<">">>)
             /\ EmptyElement(c.element) => ~EndsWith(c.result, close)
             /\ ~EmptyElement(c.element) => EndsWith(c.result, close)

\* a linearGradient with a STOP child and a clipPath child with text is
\* written with lineargradient, stop and clippath
C26_Witness ==
  /\ Done
  \* `linearGradient`
  /\ svgElement.tagName = <<"l","i","n","e","a","r","G","r","a","d","i","e","n","t">>
  /\ out.serialized
       \* `  <lineargradient>\n    <stop offset="0" />\n    <clippath>t</clippath>\n  </lineargradient>`
       = <<" "," ","<","l","i","n","e","a","r","g","r","a","d","i","e","n","t",">","\n"," ",
             " "," "," ","<","s","t","o","p"," ","o","f","f","s","e","t","=","\"","0","\"",
             " ","/",">","\n"," "," "," "," ","<","c","l","i","p","p","a","t","h",">","t",
             "<","/","c","l","i","p","p","a","t","h",">","\n"," "," ","<","/","l","i","n",
             "e","a","r","g","r","a","d","i","e","n","t",">">>

---------------------------------------------------------------------------
(* C27, C28: the stored history *)

\* every call of addToHistory has ended
AllEnded == \A i \in 1..Len(handlers) : handlers[i].at = "done"

\* the items of the calls, in order of arrival
Added == [i \in 1..Len(handlers) |-> handlers[i].item]

\* the last n items of s
Newest(s, n) == [i \in 1..(IF Len(s) < n THEN Len(s) ELSE n) |->
                   s[Len(s) - (IF Len(s) < n THEN Len(s) ELSE n) + i]]

\* C27: after any sequence of ADD_HISTORY messages each handled to completion
\* before the next starts, the stored history holds at most 30 items, and
\* they are the most recently added items in arrival order (oldest first,
\* newest last).
C27_BoundedHistory ==
  (~overlapped /\ AllEnded /\ Len(handlers) > 0) =>
    /\ storage.hasHistory
    /\ Len(storage.history) <= 30
    /\ \A i \in 1..(Len(storage.history) - 1) : storage.history[i] < storage.history[i + 1]
    /\ \E n \in 0..30 : storage.history = Newest(Items(n) \o Added, 30)

\* three messages were handled one after the other on a full history: the
\* three oldest items are gone and the three new ones are last
C27_Witness ==
  /\ ~overlapped /\ AllEnded
  /\ Len(handlers) = 3
  /\ Len(storage.history) = 30
  /\ storage.history[1] = 4
  /\ SubSeq(storage.history, 28, 30) = Added

\* C28: when two or more ADD_HISTORY messages are handled with their storage
\* reads and writes interleaved, every item whose handler has completed is
\* present in the stored history (as long as fewer than 30 items were added
\* after it).
C28_NoLostUpdates ==
  \A i \in 1..Len(handlers) :
    (handlers[i].at = "done" /\ Len(handlers) - i < 30) =>
      \E k \in 1..Len(storage.history) : storage.history[k] = handlers[i].item


---------------------------------------------------------------------------
(* One response for each request of the content script *)

\* the message types the switch of handleMessage names
KnownTypes == {"GET_SVGS", "TOGGLE_OVERLAY", "CONVERT_SVG", "HIGHLIGHT_SVG"}

\* request i asks for the conversion of an index outside svgElements
OutOfRange(i) ==
  /\ requests[i].type = "CONVERT_SVG"
  /\ requests[i].data.index \notin 0..(Len(svgElements) - 1)

\* the conversion asked for by the current message has failed: the source has
\* no URL, the fetch was rejected, the parser signalled an error, or the
\* generator did
ConversionFailed ==
  /\ message.type = "CONVERT_SVG"
  /\ cpc = "idle"
  /\ \/ OutOfRange(Len(requests))
     \/ LET element == svgElements[message.data.index + 1]
        IN  element.tagName # "svg" /\ ~Truthy(element.src) /\ ~Truthy(element.data)
     \/ \E i \in 1..Len(trace.fetches) : trace.fetches[i].settled = "rejected"
     \/ \E i \in 1..Len(trace.parses) : trace.parses[i].threw
     \/ trace.generated = 1 /\ out.thrown # {}

\* sendResponse has been called once for every request handled to its end,
\* and not yet for the one that is at an await
OneResponseEach ==
  /\ Len(responses) = IF cpc = "idle" THEN Len(requests) ELSE Len(requests) - 1
  /\ \A i \in 1..Len(responses) :
       /\ requests[i].type \notin KnownTypes =>
            \* `Unknown message type`
            responses[i] = ErrorResponse(<<"U","n","k","n","o","w","n"," ","m","e","s","s",
                  "a","g","e"," ","t","y","p","e">>)
       /\ OutOfRange(i) => responses[i].type = "ERROR"
       /\ responses[i].type = "SVG_CONVERTED" =>
            requests[i].type = "CONVERT_SVG" /\ ~OutOfRange(i)
  /\ ConversionFailed => LastResponse.type = "ERROR"
  /\ (Answered /\ LastResponse.type = "SVG_CONVERTED") => ~ConversionFailed

\* C29: for every message the content script's handler receives (GET_SVGS,
\* TOGGLE_OVERLAY, CONVERT_SVG, HIGHLIGHT_SVG or an unknown type) sendResponse
\* is called exactly once: never more than once, and a request that is at an
\* await is answered in the end.  An unknown type, a CONVERT_SVG index outside
\* the detected list and a failure during the conversion are each answered
\* with a single ERROR response and never with SVG_CONVERTED.
C29_OneResponsePerRequest ==
  /\ []OneResponseEach
  /\ (cpc # "idle") ~> (cpc = "idle" /\ Len(responses) = Len(requests))

\* a message of a type the switch does not name was answered with the one
\* ERROR response of the default clause
C29_Witness ==
  /\ cpc = "idle"
  /\ requests = <<[type |-> "SVG_SELECTED"]>>
  \* `Unknown message type`
  /\ responses = <<ErrorResponse(<<"U","n","k","n","o","w","n"," ","m","e","s","s","a","g",
        "e"," ","t","y","p","e">>)>>


---------------------------------------------------------------------------
(* The popover of the hover detector *)

\* the pointer is outside every SVG and outside the popover
PointerOutside == pointer = "page"

PopoverHidden == ~popoverVisible /\ currentTarget = "null"

\* C30: whenever the pointer has left every SVG, is outside the popover and
\* stays there, the popover is hidden and currentTarget is cleared once the
\* hide delay has passed, whatever mouseover events came before.
C30_PopoverEventuallyHides == <>[]PointerOutside => <>[]PopoverHidden

\* the same while the detector stays enabled
HidesWhileEnabled == <>[](PointerOutside /\ enabled) => <>[]PopoverHidden

\* the popover is shown for the second SVG, the pointer is outside, no timer
\* is running and hideTimeout still holds the handle of the timer that was
\* cleared
StaleHideTimeout ==
  /\ PointerOutside /\ enabled
  /\ popoverVisible /\ currentTarget = "svgB"
  /\ hideTimeout = "handle" /\ ~hideTimer

\* the pointer is over the SVG that is the current target
OverCurrentTarget == pointer \in Svgs /\ currentTarget = pointer

\* C31: while the pointer is over the SVG that is the current target, and
\* stays over it, no step hides the popover or clears currentTarget; a hide
\* that was scheduled when the pointer left that SVG for a moment does not
\* take place once the pointer is back on it.
C31_PopoverStaysWhileHovering ==
  [][(OverCurrentTarget /\ pointer' = pointer) =>
       /\ currentTarget' = currentTarget
       /\ popoverVisible => popoverVisible']_vars

\* the pointer is back on the current target and the timer that was started
\* when it left is still running
HidePendingOverTarget == OverCurrentTarget /\ enabled /\ popoverVisible /\ hideTimer

---------------------------------------------------------------------------
(* The popup *)

\* the result section is on display in the open conversion panel
ResultShown == ~panel.panelHidden /\ ~panel.resultHidden

\* C32: whenever the result section is visible, the code shown, which is the
\* code that is copied or downloaded, was generated for the SVG index that is
\* selected now, also when another SVG was selected while a conversion
\* request was in flight.
C32_DisplayedCodeMatchesSelection ==
  ResultShown =>
    /\ panel.codeOutput.index = selectedSVGIndex
    /\ currentCode.index = selectedSVGIndex

\* C33: the file name of a download is <name>.tsx exactly when the code
\* downloaded was generated in tsx format and <name>.jsx exactly when it was
\* generated in jsx format, after any sequence of format changes, conversions
\* and downloads.
C33_DownloadExtensionMatchesCode ==
  exported.to = "file" => exported.filename.extension = exported.content.format

\* conversion k took the step from its request to its end
Settled(k) ==
  /\ k <= Len(conversions)
  /\ conversions[k].at = "sent"
  /\ conversions'[k].at = "done"

\* C34: every conversion that disabled the Convert button and labelled it
\* 'Converting...' ends, once its request settles with an SVG_CONVERTED
\* response, an ERROR response, another response or a rejection, with the
\* button enabled and labelled 'Convert', and changes the stored current
\* code only on an SVG_CONVERTED response; a request that was sent settles.
C34_ConvertButtonRestored ==
  /\ [][\A k \in 1..MaxConversions :
          Settled(k) =>
            /\ ~convertBtn'.disabled /\ convertBtn'.text = "Convert"
            /\ currentCode' # currentCode =>
                 conversions'[k].outcome = "SVG_CONVERTED"]_vars
  /\ \A k \in 1..MaxConversions :
       (k <= Len(conversions) /\ conversions[k].at = "sent")
         ~> (k <= Len(conversions) /\ conversions[k].at = "done")

\* a request was rejected: the button is restored and no code is stored
C34_Witness ==
  /\ Len(conversions) = 1
  /\ conversions[1].at = "done" /\ conversions[1].outcome = "rejected"
  /\ convertBtn = [text |-> "Convert", disabled |-> FALSE]
  /\ currentCode = NoCode
  /\ selectedSVGIndex = 1

---------------------------------------------------------------------------
(* The badge *)

\* the number a text of decimal digits stands for
DigitValue(c) == CHOOSE d \in 0..9 : Digit(d) = c

RECURSIVE TextValue(_)
TextValue(text) ==
  IF text = <<>> THEN 0
  ELSE 10 * TextValue(SubSeq(text, 1, Len(text) - 1)) + DigitValue(text[Len(text)])

\* text is the decimal text of n > 0: digits only, no leading zero
IsDecimalOf(text, n) ==
  /\ text # <<>>
  /\ \A i \in 1..Len(text) : \E d \in 0..9 : text[i] = Digit(d)
  /\ text[1] # "0"
  /\ TextValue(text) = n

\* C36: the badge text of a tab is the decimal text of the count of the last
\* UPDATE_BADGE message from that tab when the count is above 0 and the empty
\* text when it is 0; the badge of a tab that sent none is as it was, so
\* messages without a sender tab change no badge.
C36_BadgeShowsCount ==
  \A t \in Tabs :
    /\ counted[t] = NoCount => badge[t] = [text |-> <<>>, color |-> "default"]
    /\ counted[t] = 0 => badge[t].text = <<>>
    /\ counted[t] > 0 => IsDecimalOf(badge[t].text, counted[t])

\* a tab that reported 11 and then 10 elements shows 10, a tab that reported
\* none shows nothing, and a message came from a sender without a tab
C36_Witness ==
  /\ counted[1] = 10 /\ badge[1].text = <<"1", "0">>
  /\ counted[2] = 0 /\ badge[2].text = <<>>
  /\ counted[NoTab] = 3

---------------------------------------------------------------------------
(* The overlays of the content script *)

\* the label reads `SVG #` followed by the decimal text of n
IsLabelOf(label, n) ==
  /\ Len(label) > 5
  /\ SubSeq(label, 1, 5) = <<"S","V","G"," ","#">>
  /\ IsDecimalOf(SubSeq(label, 6, Len(label)), n)

\* C35: after any sequence of TOGGLE_OVERLAY messages and DOM-change
\* detections the overlay map is empty whenever the overlay is disabled; and
\* whenever it is enabled the map holds exactly one overlay for each detected
\* SVG element, keyed by the element's index and labelled `SVG #<index+1>`,
\* and the page holds these overlays and none of an earlier detection.
C35_OverlayConsistency ==
  /\ ~isOverlayEnabled => (DOMAIN overlays = {} /\ bodyOverlays = <<>>)
  /\ isOverlayEnabled =>
       /\ DOMAIN overlays = 0..(Len(svgElements) - 1)
       /\ \A i \in DOMAIN overlays :
            /\ overlays[i].svgIndex = i
            /\ overlays[i].covers = svgElements[i + 1]
            /\ IsLabelOf(overlays[i].label, i + 1)
       /\ Len(bodyOverlays) = Len(svgElements)
       /\ \A k \in 1..Len(bodyOverlays) : bodyOverlays[k] = overlays[k - 1]

\* the overlay was enabled on the page of six sources, and a detection that
\* found the three external ones re-created the overlays
C35_Witness ==
  /\ isOverlayEnabled
  /\ requests = <<[type |-> "TOGGLE_OVERLAY", data |-> [enabled |-> TRUE]]>>
  /\ svgElements = SubSeq(PageElements, 4, 6)
  /\ Len(bodyOverlays) = 3
  \* `SVG #3`
  /\ bodyOverlays[3].label = <<"S","V","G"," ","#","3">>
  /\ bodyOverlays[3].covers = PageElements[6]
=============================================================================
